---- MODULE Spec2Model ----
(***************************************************************************)
(* Model of driftcheck's interactive review engine (src/tui/app.rs): the   *)
(* App state, the event loop of App::run / App::run_loop, the key handler  *)
(* and the background fix task spawned by App::apply_current.              *)
(***************************************************************************)
EXTENDS Integers, Sequences, FiniteSets, TLC

\* Number of issues handed to App::new (callers pass a non-empty list).
NumIssues == 3

Issues == 0 .. (NumIssues - 1)

\* enum IssueAction
IssueAction == {"Pending", "Applying", "Skip", "Applied", "Error"}

\* The key codes handle_key distinguishes; "x" stands for any other key.
KeyCode == {"q", "Esc", "j", "Down", "k", "Up", "a", "s", "Enter", "?", "x"}

\* Option<ActiveTask>
NoTask == [some |-> FALSE]

\* An ActiveTask that records the first issue whatever issue it is for.
ActiveTask_FirstIssue(idx, h) == [some |-> TRUE, issue_idx |-> 0, handle |-> h]

ActiveTask(idx, h) == [some |-> TRUE, issue_idx |-> idx, handle |-> h]

\* Option<String> of status_message, by the format string that produced it.
StatusMessage == {"None", "Generating fix for", "Applied fix to", "Error:",
                  "Task failed:", "File not found:"}

VARIABLES
    actions,         \* App.actions: Vec<IssueAction>
    current_issue,   \* App.current_issue
    list_state,      \* App.list_state.selected(): <<>> is None, <<i>> is Some(i)
    show_help,       \* App.show_help
    should_quit,     \* App.should_quit
    should_abort,    \* App.should_abort
    status_message,  \* App.status_message
    active_task,     \* App.active_task
    tasks,           \* the tasks spawned on the runtime and not yet joined
    files,           \* the documentation file behind each issue
    pc,              \* position of the thread running App::run
    loop_result,     \* what run_loop returned
    run_result       \* what App::run returned

\* The state of the review engine.
engine == <<actions, current_issue, list_state, show_help, should_quit,
            should_abort, status_message, active_task, tasks, files, pc,
            loop_result, run_result>>

\* State of a call of truncate_to_budget (src/analyzer.rs).
VARIABLES
    tb_chunks,       \* the argument chunks
    tb_max_tokens,   \* the argument max_tokens
    tb_result,       \* the returned Vec<DocChunk>
    tb_pc            \* "call" before the function has run, "done" after

truncv == <<tb_chunks, tb_max_tokens, tb_result, tb_pc>>

\* The query cache directory and the processes using it (src/cache.rs).
VARIABLES
    cache,           \* cache key -> the file <key>.json
    now,             \* Utc::now(), in seconds
    ttl,             \* config.cache.ttl
    lookup,          \* a process inside get_queries
    writers          \* processes inside store_queries

cachev == <<cache, now, ttl, lookup, writers>>

\* State of a call of analyze (src/analyzer.rs).
VARIABLES
    an               \* the call's arguments, locals, position and result

analyzev == <<an>>

\* State of a call of find_relevant_docs (src/search.rs).
VARIABLES
    fd_pc,           \* position in find_relevant_docs
    fd_rg,           \* whether which::which("rg") finds the program
    fd_analyze,      \* what the calling analyze does with the result
    fd_queries,      \* the argument queries
    fd_tasks,        \* handles: the spawned search_query tasks, in query order
    fd_order,        \* the tasks in the order in which they completed
    fd_joined,       \* the handles awaited so far
    fd_all_chunks,   \* all_chunks
    fd_seen,         \* seen
    fd_result        \* the returned Result<Vec<DocChunk>>

searchv == <<fd_pc, fd_rg, fd_analyze, fd_queries, fd_tasks, fd_order,
             fd_joined, fd_all_chunks,
             fd_seen, fd_result>>

\* State of a call of one of the other functions, looked at on its own.
VARIABLES
    call             \* the call's arguments, locals, position and result

vars == <<engine, truncv, cachev, analyzev, searchv, call>>

\* Everything but the review engine.
notEngine == <<truncv, cachev, analyzev, searchv, call>>

\* Everything but the truncation call.
notTrunc == <<engine, cachev, analyzev, searchv, call>>

\* Everything but the query cache.
notCache == <<engine, truncv, analyzev, searchv, call>>

\* Everything the analysis pipeline does not touch.
notAnalyze == <<engine, truncv, searchv, call>>

\* Everything but the search call.
notSearch == <<engine, truncv, cachev, analyzev, call>>

\* Everything but the call looked at on its own.
notCall == <<engine, truncv, cachev, analyzev, searchv>>

\* No other call is being looked at.
CallIdle == call = <<>>

\* No call of find_relevant_docs is being looked at.
SearchIdle ==
    /\ fd_pc = "idle"
    /\ fd_rg = FALSE
    /\ fd_analyze = "None"
    /\ fd_queries = <<>>
    /\ fd_tasks = <<>>
    /\ fd_order = <<>>
    /\ fd_joined = <<>>
    /\ fd_all_chunks = <<>>
    /\ fd_seen = {}
    /\ fd_result = [kind |-> "None", chunks |-> <<>>]

\* No call of analyze is being looked at.
AnalyzeIdle == an = <<>>

\* No cache directory is being looked at.
CacheIdle ==
    /\ cache = <<>>
    /\ now = 0
    /\ ttl = 0
    /\ lookup = <<>>
    /\ writers = <<>>

\* No truncation call is being looked at.
TruncIdle ==
    /\ tb_chunks = <<>>
    /\ tb_max_tokens = 0
    /\ tb_result = <<>>
    /\ tb_pc = "idle"

\* No review session is being looked at.
EngineIdle ==
    /\ actions = <<>>
    /\ current_issue = 0
    /\ list_state = <<>>
    /\ show_help = FALSE
    /\ should_quit = FALSE
    /\ should_abort = FALSE
    /\ status_message = "None"
    /\ active_task = [some |-> FALSE]
    /\ tasks = {}
    /\ files = <<>>
    /\ pc = "idle"
    /\ loop_result = "None"
    /\ run_result = "None"

app == <<actions, current_issue, list_state, show_help, should_quit,
         should_abort, status_message, active_task>>

----------------------------------------------------------------------------
\* Helpers

Min(S) == CHOOSE m \in S : \A o \in S : m <= o

\* The task a JoinHandle refers to.
TaskOf(h) == CHOOSE t \in tasks : t.id = h

\* A finished test that only sees a task that returned Ok.
IsFinished_OkOnly(h) == TaskOf(h).st = "Ok"

\* JoinHandle::is_finished
IsFinished(h) == TaskOf(h).st \in {"Ok", "Err", "Panicked"}

\* tokio::spawn gives the new task a fresh id.
FreshId == Min({i \in 0 .. Cardinality(tasks) : \A t \in tasks : t.id # i})

Pending(acts) == {i \in Issues : acts[i] = "Pending"}

----------------------------------------------------------------------------
\* App::new and the start of App::run

Init ==
    /\ actions = [i \in Issues |-> "Pending"]
    /\ current_issue = 0
    /\ list_state = IF NumIssues > 0 THEN <<0>> ELSE <<>>
    /\ show_help = FALSE
    /\ should_quit = FALSE
    /\ should_abort = FALSE
    /\ status_message = "None"
    /\ active_task = NoTask
    /\ tasks = {}
    /\ files \in [Issues -> {"absent", "original"}]
    /\ pc = "setup"
    /\ loop_result = "None"
    /\ run_result = "None"
    /\ TruncIdle
    /\ CacheIdle
    /\ AnalyzeIdle
    /\ SearchIdle
    /\ CallIdle

\* App::run, terminal setup succeeded: enter run_loop.
SetupOk ==
    /\ pc = "setup"
    /\ pc' = "check"
    /\ UNCHANGED <<app, tasks, files, loop_result, run_result>>
    /\ UNCHANGED notEngine

\* App::run, terminal setup failed: `?` returns the error at once.
SetupErr ==
    /\ pc = "setup"
    /\ pc' = "returned"
    /\ run_result' = "Err(TuiError)"
    /\ UNCHANGED <<app, tasks, files, loop_result>>
    /\ UNCHANGED notEngine

----------------------------------------------------------------------------
\* The event loop

\* move_to_next_pending that scans to the end of the list without wrapping.
MoveToNextPending_NoWrap(acts, cur) ==
    LET found == {i \in (cur + 1) .. (NumIssues - 1) : acts[i] = "Pending"}
    IN  IF found = {} THEN cur ELSE Min(found)

\* move_to_next_pending: the index the loop stops at, or cur when no issue
\* is Pending.
MoveToNextPending(acts, cur) ==
    LET found == {i \in 0 .. (NumIssues - 1) :
                     acts[(cur + 1 + i) % NumIssues] = "Pending"}
    IN  IF found = {} THEN cur ELSE (cur + 1 + Min(found)) % NumIssues

\* check_task_completion whose JoinError arm forgets to mark the issue.
ResultAction_PanicUnmarked(res) ==
    CASE res = "Ok" -> "Applied"
      [] res = "Err" -> "Error"
      [] OTHER -> "Applying"

\* check_task_completion that offers a failed fix for another try.
ResultAction_RetryOnError(res) == IF res = "Ok" THEN "Applied" ELSE "Pending"

\* check_task_completion, the action a joined task's result gives its issue.
ResultAction(res) == IF res = "Ok" THEN "Applied" ELSE "Error"

\* check_task_completion that advances the selection after every result.
ResultAdvances_Always(res) == TRUE

\* check_task_completion, the results after which move_to_next_pending runs.
ResultAdvances(res) == res = "Ok"

\* check_task_completion, the status message for a joined task's result.
ResultMessage(res) ==
    CASE res = "Ok" -> "Applied fix to"
      [] res = "Err" -> "Error:"
      [] res = "Panicked" -> "Task failed:"

\* check_task_completion, then on to the draw.
CheckTaskCompletion ==
    /\ pc = "check"
    /\ pc' = "draw"
    /\ IF active_task.some /\ IsFinished(active_task.handle)
       THEN LET task == active_task
                res  == TaskOf(task.handle).st
                acts == [actions EXCEPT ![task.issue_idx] = ResultAction(res)]
                next == MoveToNextPending(acts, current_issue)
            IN  /\ active_task' = NoTask
                /\ tasks' = tasks \ {TaskOf(task.handle)}
                /\ actions' = acts
                /\ status_message' = ResultMessage(res)
                /\ IF ResultAdvances(res) /\ Pending(acts) # {}
                   THEN /\ current_issue' = next
                        /\ list_state' = <<next>>
                   ELSE UNCHANGED <<current_issue, list_state>>
       ELSE UNCHANGED <<actions, status_message, active_task, tasks,
                        current_issue, list_state>>
    /\ UNCHANGED <<show_help, should_quit, should_abort, files, loop_result,
                   run_result>>
    /\ UNCHANGED notEngine

\* terminal.draw succeeded.
DrawOk ==
    /\ pc = "draw"
    /\ pc' = "poll"
    /\ UNCHANGED <<app, tasks, files, loop_result, run_result>>
    /\ UNCHANGED notEngine

\* terminal.draw failed: run_loop returns the error.
DrawErr ==
    /\ pc = "draw"
    /\ pc' = "restore"
    /\ loop_result' = "Err(TuiError)"
    /\ UNCHANGED <<app, tasks, files, run_result>>
    /\ UNCHANGED notEngine

\* next_issue
NextIssue(cur) == (cur + 1) % NumIssues

\* prev_issue
PrevIssue(cur) == IF cur = 0 THEN NumIssues - 1 ELSE cur - 1

\* A running check that looks at the handle instead of the slot.
TaskRunning_UnfinishedOnly ==
    active_task.some /\ ~IsFinished(active_task.handle)

\* self.active_task.is_some()
TaskRunning == active_task.some

\* The status message once handle_key has passed its first statement.
Cleared == IF TaskRunning THEN status_message ELSE "None"

\* apply_current without the test of issue.file.exists().
ApplyCurrent_NoFileCheck ==
    IF current_issue >= NumIssues \/ TaskRunning
    THEN /\ status_message' = Cleared
         /\ UNCHANGED <<actions, active_task, tasks>>
    ELSE /\ actions' = [actions EXCEPT ![current_issue] = "Applying"]
         /\ tasks' = tasks \cup {[id |-> FreshId, issue_idx |-> current_issue,
                                  st |-> "read"]}
         /\ active_task' = ActiveTask(current_issue, FreshId)
         /\ status_message' = "Generating fix for"

\* apply_current
ApplyCurrent ==
    IF current_issue >= NumIssues \/ TaskRunning
    THEN /\ status_message' = Cleared
         /\ UNCHANGED <<actions, active_task, tasks>>
    ELSE IF files[current_issue] = "absent"
    THEN /\ status_message' = "File not found:"
         /\ UNCHANGED <<actions, active_task, tasks>>
    ELSE /\ actions' = [actions EXCEPT ![current_issue] = "Applying"]
         /\ tasks' = tasks \cup {[id |-> FreshId, issue_idx |-> current_issue,
                                  st |-> "read"]}
         /\ active_task' = ActiveTask(current_issue, FreshId)
         /\ status_message' = "Generating fix for"

\* skip_current without the call of next_issue.
SkipCurrent_NoAdvance ==
    IF current_issue < NumIssues
    THEN /\ actions' = [actions EXCEPT ![current_issue] = "Skip"]
         /\ UNCHANGED <<current_issue, list_state>>
    ELSE UNCHANGED <<actions, current_issue, list_state>>

\* skip_current
SkipCurrent ==
    IF current_issue < NumIssues
    THEN /\ actions' = [actions EXCEPT ![current_issue] = "Skip"]
         /\ current_issue' = NextIssue(current_issue)
         /\ list_state' = <<NextIssue(current_issue)>>
    ELSE UNCHANGED <<actions, current_issue, list_state>>

\* confirm_and_continue that jumps to the next Pending issue after the
\* selection instead of the first one of the list.
ConfirmAndContinue_NextFromCurrent ==
    IF TaskRunning
    THEN UNCHANGED <<should_quit, current_issue, list_state>>
    ELSE IF Pending(actions) = {}
    THEN /\ should_quit' = TRUE
         /\ UNCHANGED <<current_issue, list_state>>
    ELSE /\ current_issue' = MoveToNextPending(actions, current_issue)
         /\ list_state' = <<MoveToNextPending(actions, current_issue)>>
         /\ UNCHANGED should_quit

\* confirm_and_continue that quits while issues are Pending.
ConfirmAndContinue_QuitWithPending ==
    IF TaskRunning
    THEN UNCHANGED <<should_quit, current_issue, list_state>>
    ELSE /\ should_quit' = TRUE
         /\ UNCHANGED <<current_issue, list_state>>

\* confirm_and_continue
ConfirmAndContinue ==
    IF TaskRunning
    THEN UNCHANGED <<should_quit, current_issue, list_state>>
    ELSE IF Pending(actions) = {}
    THEN /\ should_quit' = TRUE
         /\ UNCHANGED <<current_issue, list_state>>
    ELSE /\ current_issue' = Min(Pending(actions))
         /\ list_state' = <<Min(Pending(actions))>>
         /\ UNCHANGED should_quit

\* handle_key, the key map used when no task is running.
NormalKeys(key) ==
    CASE key \in {"q", "Esc"} ->
           /\ should_abort' = TRUE
           /\ status_message' = Cleared
           /\ UNCHANGED <<actions, current_issue, list_state, show_help,
                          should_quit, active_task, tasks>>
      [] key \in {"j", "Down"} ->
           /\ current_issue' = NextIssue(current_issue)
           /\ list_state' = <<NextIssue(current_issue)>>
           /\ status_message' = Cleared
           /\ UNCHANGED <<actions, show_help, should_quit, should_abort,
                          active_task, tasks>>
      [] key \in {"k", "Up"} ->
           /\ current_issue' = PrevIssue(current_issue)
           /\ list_state' = <<PrevIssue(current_issue)>>
           /\ status_message' = Cleared
           /\ UNCHANGED <<actions, show_help, should_quit, should_abort,
                          active_task, tasks>>
      [] key = "a" ->
           /\ ApplyCurrent
           /\ UNCHANGED <<current_issue, list_state, show_help, should_quit,
                          should_abort>>
      [] key = "s" ->
           /\ SkipCurrent
           /\ status_message' = Cleared
           /\ UNCHANGED <<show_help, should_quit, should_abort, active_task,
                          tasks>>
      [] key = "Enter" ->
           /\ ConfirmAndContinue
           /\ status_message' = Cleared
           /\ UNCHANGED <<actions, show_help, should_abort, active_task,
                          tasks>>
      [] key = "?" ->
           /\ show_help' = TRUE
           /\ status_message' = Cleared
           /\ UNCHANGED <<actions, current_issue, list_state, should_quit,
                          should_abort, active_task, tasks>>
      [] OTHER ->
           /\ status_message' = Cleared
           /\ UNCHANGED <<actions, current_issue, list_state, show_help,
                          should_quit, should_abort, active_task, tasks>>

\* The running-task key map without its `return`: the key falls through to
\* the normal key map.
RunningKeys_Fallthrough(key) ==
    IF key \in {"q", "Esc"}
    THEN /\ should_abort' = TRUE
         /\ status_message' = Cleared
         /\ UNCHANGED <<actions, current_issue, list_state, show_help,
                        should_quit, active_task, tasks>>
    ELSE NormalKeys(key)

\* The running-task key map that also takes the navigation keys.
RunningKeys_Navigate(key) ==
    /\ should_abort' = (should_abort \/ key \in {"q", "Esc"})
    /\ current_issue' = CASE key \in {"j", "Down"} -> NextIssue(current_issue)
                          [] key \in {"k", "Up"} -> PrevIssue(current_issue)
                          [] OTHER -> current_issue
    /\ list_state' = <<current_issue'>>
    /\ status_message' = Cleared
    /\ UNCHANGED <<actions, show_help, should_quit, active_task, tasks>>

\* The running-task key map that ignores every key.
RunningKeys_IgnoreAll(key) ==
    /\ status_message' = Cleared
    /\ UNCHANGED <<actions, current_issue, list_state, show_help, should_quit,
                   should_abort, active_task, tasks>>

\* handle_key, the keys accepted while a task is running: abort only, then
\* return.
RunningKeys(key) ==
    /\ should_abort' = (should_abort \/ key \in {"q", "Esc"})
    /\ status_message' = Cleared
    /\ UNCHANGED <<actions, current_issue, list_state, show_help, should_quit,
                   active_task, tasks>>

\* handle_key whose popup branch closes the popup but still handles the
\* apply key.
HandleKey_HelpFallthrough(key) ==
    IF show_help /\ key = "a"
    THEN /\ show_help' = FALSE
         /\ ApplyCurrent
         /\ UNCHANGED <<current_issue, list_state, should_quit, should_abort>>
    ELSE IF show_help
    THEN /\ show_help' = FALSE
         /\ status_message' = Cleared
         /\ UNCHANGED <<actions, current_issue, list_state, should_quit,
                        should_abort, active_task, tasks>>
    ELSE IF TaskRunning
    THEN RunningKeys(key)
    ELSE NormalKeys(key)

\* handle_key
HandleKey(key) ==
    IF show_help
    THEN /\ show_help' = FALSE
         /\ status_message' = Cleared
         /\ UNCHANGED <<actions, current_issue, list_state, should_quit,
                        should_abort, active_task, tasks>>
    ELSE IF TaskRunning
    THEN RunningKeys(key)
    ELSE NormalKeys(key)

\* The end of a loop iteration: break on should_quit, return the abort error
\* on should_abort, otherwise start the next iteration.
LoopExit ==
    /\ loop_result' = IF should_quit' THEN "Ok"
                      ELSE IF should_abort' THEN "Err(Push aborted by user)"
                      ELSE "None"
    /\ pc' = IF should_quit' \/ should_abort' THEN "restore" ELSE "check"

\* event::poll returned true and event::read returned a key event.
PollKey(key) ==
    /\ pc = "poll"
    /\ HandleKey(key)
    /\ LoopExit
    /\ UNCHANGED <<files, run_result>>
    /\ UNCHANGED notEngine

\* event::poll timed out, or the event read was not a key event.
PollNoKey ==
    /\ pc = "poll"
    /\ UNCHANGED <<app, tasks, files, run_result>>
    /\ LoopExit
    /\ UNCHANGED notEngine

\* event::poll or event::read failed: run_loop returns the error.
PollErr ==
    /\ pc = "poll"
    /\ pc' = "restore"
    /\ loop_result' = "Err(TuiError)"
    /\ UNCHANGED <<app, tasks, files, run_result>>
    /\ UNCHANGED notEngine

----------------------------------------------------------------------------
\* The end of App::run and of the process

\* Terminal restored: App::run returns run_loop's result.
RestoreOk ==
    /\ pc = "restore"
    /\ pc' = "returned"
    /\ run_result' = loop_result
    /\ UNCHANGED <<app, tasks, files, loop_result>>
    /\ UNCHANGED notEngine

\* Restoring the terminal failed: `?` returns that error instead.
RestoreErr ==
    /\ pc = "restore"
    /\ pc' = "returned"
    /\ run_result' = "Err(TuiError)"
    /\ UNCHANGED <<app, tasks, files, loop_result>>
    /\ UNCHANGED notEngine

\* main: process::exit(1) on an error, or return from main on success. Either
\* way the runtime and every task still on it are gone.
ProcessExit ==
    /\ pc = "returned"
    /\ pc' = "exited"
    /\ tasks' = {}
    /\ UNCHANGED <<app, files, loop_result, run_result>>
    /\ UNCHANGED notEngine

----------------------------------------------------------------------------
\* The background task, apply_fix_task. It runs on the runtime's worker
\* threads, concurrently with the thread in App::run, until the process exits.

\* A task that holds the App and marks its issue itself when it succeeds.
TaskStep_SharedState(t, st) ==
    /\ tasks' = (tasks \ {t}) \cup {[t EXCEPT !.st = st]}
    /\ actions' = IF st = "Ok"
                  THEN [actions EXCEPT ![t.issue_idx] = "Applied"]
                  ELSE actions
    /\ UNCHANGED <<current_issue, list_state, show_help, should_quit,
                   should_abort, status_message, active_task>>
    /\ UNCHANGED <<pc, loop_result, run_result>>
    /\ UNCHANGED notEngine

\* A step of the task moves it on; it holds no reference to the App.
TaskStep(t, st) ==
    /\ tasks' = (tasks \ {t}) \cup {[t EXCEPT !.st = st]}
    /\ UNCHANGED <<app, pc, loop_result, run_result>>
    /\ UNCHANGED notEngine

\* fs::read_to_string
TaskRead(t) ==
    /\ t.st = "read"
    /\ \/ files[t.issue_idx] # "absent" /\ TaskStep(t, "llm")
       \/ TaskStep(t, "Err")
    /\ UNCHANGED files

\* generate_doc_fix
TaskLlm(t) ==
    /\ t.st = "llm"
    /\ \/ TaskStep(t, "write")
       \/ TaskStep(t, "Err")
    /\ UNCHANGED files

\* fs::write of a task that is cancelled once run_loop has returned.
TaskWrite_Cancelled(t) ==
    /\ t.st = "write"
    /\ pc \notin {"restore", "returned"}
    /\ \/ TaskStep(t, "Ok") /\ files' = [files EXCEPT ![t.issue_idx] = "fixed"]
       \/ TaskStep(t, "Err") /\ UNCHANGED files

\* fs::write
TaskWrite(t) ==
    /\ t.st = "write"
    /\ \/ TaskStep(t, "Ok") /\ files' = [files EXCEPT ![t.issue_idx] = "fixed"]
       \/ TaskStep(t, "Err") /\ UNCHANGED files

\* The task panics: its JoinHandle yields a JoinError.
TaskPanic(t) ==
    /\ t.st \in {"read", "llm", "write"}
    /\ TaskStep(t, "Panicked")
    /\ UNCHANGED files

----------------------------------------------------------------------------

Next ==
    \/ SetupOk
    \/ SetupErr
    \/ CheckTaskCompletion
    \/ DrawOk
    \/ DrawErr
    \/ \E key \in KeyCode : PollKey(key)
    \/ PollNoKey
    \/ PollErr
    \/ RestoreOk
    \/ RestoreErr
    \/ ProcessExit
    \/ \E t \in tasks : TaskRead(t)
    \/ \E t \in tasks : TaskLlm(t)
    \/ \E t \in tasks : TaskWrite(t)
    \/ \E t \in tasks : TaskPanic(t)

Spec == Init /\ [][Next]_vars

\* One step of run_loop's iteration: the completion check, the draw, or the
\* poll with whatever it delivers.
LoopStep ==
    \/ CheckTaskCompletion
    \/ DrawOk
    \/ DrawErr
    \/ \E key \in KeyCode : PollKey(key)
    \/ PollNoKey
    \/ PollErr

\* One step of a spawned apply_fix_task.
TaskSteps ==
    \E t \in tasks : TaskRead(t) \/ TaskLlm(t) \/ TaskWrite(t) \/ TaskPanic(t)

\* The session with a loop that keeps iterating and a runtime that keeps
\* running the spawned task: event::poll returns after its timeout at the
\* latest, so run_loop takes its next step as long as it has not returned,
\* and the task's awaits are taken to complete.
SpecLive == Init /\ [][Next]_vars /\ WF_vars(LoopStep) /\ WF_vars(TaskSteps)

----------------------------------------------------------------------------
\* Properties of the review engine

Applying == {i \in Issues : actions[i] = "Applying"}

Aborted == "Err(Push aborted by user)"

\* C1: in every reachable state at most one issue has the action Applying.
C1_AtMostOneApplying == Cardinality(Applying) <= 1

\* One issue is Applying while an earlier fix has already been joined and a
\* third issue is still open.
C1_Witness ==
    /\ pc = "poll"
    /\ Cardinality(Applying) = 1
    /\ \E i \in Issues : actions[i] \in {"Applied", "Error"}
    /\ active_task.some

\* C2: the key 'a' handled while the task slot is occupied changes no
\* issue's action, not the selection, not the slot, and spawns no task.
C2_ApplyInFlightNoOp ==
    [][(PollKey("a") /\ active_task.some)
         => /\ actions' = actions
            /\ current_issue' = current_issue
            /\ list_state' = list_state
            /\ active_task' = active_task
            /\ tasks' = tasks
            /\ Cardinality(tasks') = 1]_vars

\* The loop is about to read a key while a finished task still occupies the
\* slot and the selected issue's file is there: an apply would otherwise start.
C2_Witness ==
    /\ pc = "poll"
    /\ active_task.some
    /\ IsFinished(active_task.handle)
    /\ files[current_issue] # "absent"
    /\ ~show_help

\* The pair (old, new) of every action that a step changes.
Changes == {<<actions[i], actions'[i]>> : i \in {j \in Issues : actions'[j] # actions[j]}}

\* C3 as stated: every change of an issue's action is Pending->Applying,
\* Applying->Applied, Applying->Error or Pending->Skip.
C3_OnlyFromPending ==
    [][Changes \subseteq {<<"Pending", "Applying">>, <<"Applying", "Applied">>,
                          <<"Applying", "Error">>, <<"Pending", "Skip">>}]_vars

\* C3, amended: every change of an issue's action is X->Applying or X->Skip
\* for an X other than Applying (X->Skip also other than Skip), made on the
\* selected issue while the task slot is empty, or Applying->Applied or
\* Applying->Error; no issue returns to Pending.
C3_Transitions ==
    [][/\ Changes \subseteq
            ({<<x, "Applying">> : x \in {"Pending", "Skip", "Applied", "Error"}}
             \cup {<<x, "Skip">> : x \in {"Pending", "Applied", "Error"}}
             \cup {<<"Applying", "Applied">>, <<"Applying", "Error">>})
       /\ \A i \in Issues :
            (actions'[i] # actions[i] /\ actions'[i] \in {"Applying", "Skip"})
              => (i = current_issue /\ ~active_task.some)]_vars

\* A fix is being generated again for an issue whose file an earlier fix has
\* already rewritten, and another issue with a rewritten file is now Skip.
C3_Witness ==
    /\ pc = "poll"
    /\ active_task.some
    /\ TaskOf(active_task.handle).st = "read"
    /\ files[active_task.issue_idx] = "fixed"
    /\ actions[active_task.issue_idx] = "Applying"
    /\ \E j \in Issues : actions[j] = "Skip" /\ files[j] = "fixed"

AbortKeys == {"q", "Esc"}

\* C4 as stated: q or Esc ends the session with the aborted outcome in every
\* engine state.
C4_AbortAlways ==
    [][\A key \in AbortKeys :
          PollKey(key) => (loop_result' = Aborted /\ pc' = "restore")]_vars

\* C4, amended: q or Esc ends the session with the aborted outcome, an error
\* and never the Ok of Quit, in every state in which the help popup is not
\* shown, a task in flight included; with the popup shown the key only closes
\* it and the session goes on.
C4_AbortUnlessHelp ==
    [][/\ \A key \in AbortKeys :
            PollKey(key) =>
              IF show_help
              THEN /\ ~show_help'
                   /\ ~should_abort'
                   /\ loop_result' = "None"
                   /\ pc' = "check"
              ELSE /\ should_abort'
                   /\ loop_result' = Aborted
                   /\ pc' = "restore"
       /\ (should_abort /\ pc' = "returned") => run_result' # "Ok"
       /\ (should_quit' /\ ~should_quit) => loop_result' = "Ok"]_vars

\* The session was aborted while a fix task was in flight.
C4_Witness ==
    /\ pc = "restore"
    /\ loop_result = Aborted
    /\ active_task.some
    /\ ~IsFinished(active_task.handle)

NavKeys == {"j", "Down", "k", "Up"}

Dist(i, j) == (j - i + NumIssues) % NumIssues

\* The loop step that joins a finished task with one of the given results.
Joins(results) ==
    /\ pc = "check"
    /\ pc' = "draw"
    /\ active_task.some
    /\ TaskOf(active_task.handle).st \in results

\* C6: joining a task that succeeded for issue i sets i to Applied, empties
\* the slot and selects the first Pending issue after i in wrapping order,
\* or leaves the selection when no issue is Pending.
C6_SuccessAdvances ==
    [][Joins({"Ok"}) =>
         LET i == active_task.issue_idx
         IN  /\ actions' = [actions EXCEPT ![i] = "Applied"]
             /\ active_task' = NoTask
             /\ IF Pending(actions') = {}
                THEN /\ current_issue' = current_issue
                     /\ list_state' = list_state
                ELSE /\ current_issue' \in Pending(actions')
                     /\ \A j \in Pending(actions') :
                          Dist(i, current_issue') <= Dist(i, j)
                     /\ list_state' = <<current_issue'>>]_vars

\* The fix for the last issue was just joined; the selection wrapped past a
\* skipped first issue to the Pending second one.
C6_Witness ==
    /\ pc = "draw"
    /\ status_message = "Applied fix to"
    /\ \A i \in Issues : (actions[i] = "Applied") <=> (i = NumIssues - 1)
    /\ actions[0] = "Skip"
    /\ actions[1] = "Pending"
    /\ current_issue = 1

\* C7: joining a task that failed or died for issue i sets i to Error,
\* leaves the selection, empties the slot, shows the error as the status
\* message and does not end the session.
C7_FailureKeepsSelection ==
    [][Joins({"Err", "Panicked"}) =>
         LET i == active_task.issue_idx
         IN  /\ actions' = [actions EXCEPT ![i] = "Error"]
             /\ current_issue' = current_issue
             /\ list_state' = list_state
             /\ active_task' = NoTask
             /\ status_message' \in {"Error:", "Task failed:"}
             /\ ~should_quit'
             /\ ~should_abort'
             /\ loop_result' = "None"]_vars

\* A died task was just joined: its issue is Error and still selected while
\* another issue is Pending.
C7_Witness ==
    /\ pc = "draw"
    /\ status_message = "Task failed:"
    /\ actions[current_issue] = "Error"
    /\ Pending(actions) # {}
    /\ ~active_task.some

\* C8: the loop step that ends the session on an abort leaves the task and
\* the slot alone, and once run_loop has returned the abort error a task that
\* has reached its write can still overwrite the documentation file.
C8_AbortDoesNotCancel ==
    /\ [][(pc = "poll" /\ loop_result' = Aborted)
            => (tasks' = tasks /\ active_task' = active_task
                /\ files' = files)]_vars
    /\ [](\A t \in tasks :
            (loop_result = Aborted /\ t.st = "write")
              => ENABLED (TaskWrite(t) /\ files'[t.issue_idx] = "fixed"))

\* App::run has returned the abort error and the task is alive, about to
\* write the file.
C8_Witness ==
    /\ pc = "returned"
    /\ run_result = Aborted
    /\ \E t \in tasks : t.st = "write" /\ files[t.issue_idx] = "original"

C10_Skip ==
    [][PollKey("s") =>
         IF active_task.some
         THEN UNCHANGED <<app, tasks, files, loop_result>>
         ELSE ~show_help =>
                /\ actions' = [actions EXCEPT ![current_issue] = "Skip"]
                /\ current_issue' = (current_issue + 1) % NumIssues
                /\ list_state' = <<current_issue'>>]_vars

\* The last issue was skipped and the selection wrapped to the first one.
C10_Witness ==
    /\ actions[NumIssues - 1] = "Skip"
    /\ \A i \in Issues : i # NumIssues - 1 => actions[i] = "Pending"
    /\ current_issue = 0
    /\ list_state = <<0>>

\* C11: the next and prev keys, the key that opens the help popup and any
\* key that closes it leave every issue's action, the task slot and the set
\* of spawned tasks unchanged.
C11_NavigationAndHelpFrame ==
    [][((\E key \in NavKeys \cup {"?"} : PollKey(key))
          \/ (show_help /\ \E key \in KeyCode : PollKey(key)))
         => /\ actions' = actions
            /\ active_task' = active_task
            /\ tasks' = tasks]_vars

\* The help popup is open on an issue reached by navigation while another
\* issue's file could be fixed.
C11_Witness ==
    /\ pc = "poll"
    /\ show_help
    /\ current_issue # 0
    /\ files[current_issue] = "original"
    /\ actions[current_issue] = "Pending"

\* A step of the fix task.
TaskActs ==
    \E t \in tasks : TaskRead(t) \/ TaskLlm(t) \/ TaskWrite(t) \/ TaskPanic(t)

\* The issues whose action the step changes.
Changed == {i \in Issues : actions'[i] # actions[i]}

\* C30: a step of the fix task changes no issue's action, not the selection
\* and not the task slot.  While the slot is occupied its issue is Applying,
\* and once the task has finished both stay so in every step but the tick's
\* check_task_completion; that step changes at most one issue's action, the
\* action of the slot's issue, from Applying to Applied or Error.
C30_TaskResultOnlyByTick ==
    /\ [][TaskActs => UNCHANGED <<actions, current_issue, list_state,
                                  active_task>>]_vars
    /\ [](active_task.some => actions[active_task.issue_idx] = "Applying")
    /\ [][(/\ active_task.some
           /\ IsFinished(active_task.handle)
           /\ ~CheckTaskCompletion)
            => /\ active_task' = active_task
               /\ actions'[active_task.issue_idx] = "Applying"]_vars
    /\ [][CheckTaskCompletion =>
            /\ Cardinality(Changed) <= 1
            /\ \A i \in Changed :
                  /\ active_task.some
                  /\ IsFinished(active_task.handle)
                  /\ i = active_task.issue_idx
                  /\ actions[i] = "Applying"
                  /\ actions'[i] \in {"Applied", "Error"}]_vars

\* The task of the last issue has written its file while the loop waits for
\* a key: the issue is still Applying and the slot occupied.
C30_Witness ==
    /\ pc = "poll"
    /\ active_task.some
    /\ active_task.issue_idx = NumIssues - 1
    /\ IsFinished(active_task.handle)
    /\ TaskOf(active_task.handle).st = "Ok"
    /\ files[NumIssues - 1] = "fixed"
    /\ actions[NumIssues - 1] = "Applying"
    /\ actions[0] = "Applied"

\* C31: 'a' handled by the normal key map on an issue whose file does not
\* exist leaves every issue's action, the empty task slot, the set of
\* spawned tasks and the selection as they are and sets the status message.
C31_ApplyAbsentRejected ==
    [][(/\ PollKey("a")
        /\ ~show_help
        /\ ~active_task.some
        /\ files[current_issue] = "absent")
         => /\ actions' = actions
            /\ active_task' = NoTask
            /\ tasks' = tasks
            /\ status_message' = "File not found:"
            /\ UNCHANGED <<current_issue, list_state, should_quit,
                           should_abort, show_help>>]_vars

\* The apply of a Pending issue without a file has been rejected.
C31_Witness ==
    /\ pc = "check"
    /\ status_message = "File not found:"
    /\ files[current_issue] = "absent"
    /\ actions[current_issue] = "Pending"
    /\ ~active_task.some
    /\ tasks = {}

\* C34: in every reachable state an issue has the action Applying exactly
\* when the task slot holds a task recorded for its index; with an empty
\* slot no issue is Applying.
C34_ApplyingIffSlot ==
    \A i \in Issues :
        actions[i] = "Applying" <=>
            (active_task.some /\ active_task.issue_idx = i)

\* The last issue is Applying with its task in the slot, after the first
\* issue's fix was applied and joined.
C34_Witness ==
    /\ pc = "poll"
    /\ active_task.some
    /\ active_task.issue_idx = NumIssues - 1
    /\ actions[NumIssues - 1] = "Applying"
    /\ actions[0] = "Applied"
    /\ TaskOf(active_task.handle).st = "llm"

\* No issue is Pending or Applying and no fix task is in flight.
Settled ==
    /\ \A i \in Issues : actions[i] \in {"Skip", "Applied", "Error"}
    /\ ~active_task.some
    /\ tasks = {}

\* C35: should_quit is set, and run_loop returns Ok, only in a state in
\* which no issue is Pending, none is Applying and no fix task is in flight;
\* the step that sets it is the Enter key and changes no action.
C35_QuitOnlyWhenSettled ==
    /\ []((should_quit \/ loop_result = "Ok" \/ run_result = "Ok")
            => (should_quit /\ ~should_abort /\ Settled))
    /\ [][(should_quit' /\ ~should_quit)
            => (PollKey("Enter") /\ Settled /\ actions' = actions)]_vars

\* The session has ended with Ok over one skipped issue, one applied fix and
\* one failed fix.
C35_Witness ==
    /\ run_result = "Ok"
    /\ {actions[i] : i \in Issues} = {"Skip", "Applied", "Error"}

\* run_loop has returned.
SessionEnded == pc \in {"restore", "returned", "exited"}

\* C36: with a loop that keeps iterating and a task that keeps running, an
\* issue that is Applying leads to a state in which it is Applied or Error
\* and the task slot is empty, unless the session ends first.
C36_ApplyingLeadsToResult ==
    \A i \in Issues :
        (actions[i] = "Applying")
            ~> (\/ actions[i] \in {"Applied", "Error"} /\ ~active_task.some
                \/ SessionEnded)

\* The loop has just joined a task that failed to write: its issue is Error,
\* the slot is empty and the session goes on.
C36_Witness ==
    /\ pc = "draw"
    /\ ~active_task.some
    /\ tasks = {}
    /\ status_message = "Error:"
    /\ actions[NumIssues - 1] = "Error"
    /\ files[NumIssues - 1] = "original"

\* C37: no step turns an action that is not Pending into Pending, and no
\* step increases the number of Pending issues.
C37_PendingNeverReturns ==
    [][/\ \A i \in Issues : actions[i] # "Pending" => actions'[i] # "Pending"
       /\ Cardinality(Pending(actions')) <= Cardinality(Pending(actions))]_vars

\* A failed fix and a skipped issue have left Pending, one issue is still
\* Pending and the loop waits for a key with an empty slot.
C37_Witness ==
    /\ pc = "poll"
    /\ ~active_task.some
    /\ actions[0] = "Error"
    /\ actions[1] = "Skip"
    /\ Pending(actions) = {NumIssues - 1}

----------------------------------------------------------------------------
\* Token-budget truncation (src/analyzer.rs, truncate_to_budget)

\* Largest number of chunks handed to truncate_to_budget.
MaxChunks == 3

\* Largest number of characters of a chunk's content.
MaxContentChars == 5

\* Largest max_tokens.
MaxTokens == 1

\* "Rough estimate: 4 chars per token".
CharsPerToken == 4

\* A String, as the sequence of the UTF-8 widths of its characters; the
\* contents drawn are empty, all ASCII (1 byte each) or all two-byte
\* characters.
Contents ==
    {[i \in 1..n |-> w] : n \in 0..MaxContentChars, w \in {1, 2}}

\* String::len: the length in bytes.
RECURSIVE ByteLen(_)
ByteLen(content) ==
    IF content = <<>> THEN 0 ELSE Head(content) + ByteLen(Tail(content))

\* content.chars().take(n).collect()
CharsTake(content, n) == SubSeq(content, 1, Min({n, Len(content)}))

\* llm::DocChunk; key stands for the fields other than content (file,
\* start_line, end_line), which truncation copies.
DocChunkOf(key, content) == [key |-> key, content |-> content]

\* One step of the stable sort: c goes after every chunk that is not longer.
InsertByLen(sorted, c) ==
    LET k == Cardinality({i \in 1..Len(sorted) :
                            ByteLen(sorted[i].content) <= ByteLen(c.content)})
    IN  SubSeq(sorted, 1, k) \o <<c>> \o SubSeq(sorted, k + 1, Len(sorted))

\* chunks.sort_by_key(|c| c.content.len())
RECURSIVE SortByLen(_)
SortByLen(chunks) ==
    IF chunks = <<>>
    THEN <<>>
    ELSE InsertByLen(SortByLen(SubSeq(chunks, 1, Len(chunks) - 1)),
                     chunks[Len(chunks)])

OverBudget_TotalOnly(total_chars, chunk_chars, chars_budget) ==
    total_chars > chars_budget

\* if total_chars + chunk_chars > chars_budget
OverBudget(total_chars, chunk_chars, chars_budget) ==
    total_chars + chunk_chars > chars_budget

CutOff_Drop(result, chunk, chars_budget) == result

\* The body of the over-budget branch: the first chunk is pushed cut to
\* chars_budget characters, any later one is dropped; the loop ends.
CutOff(result, chunk, chars_budget) ==
    IF result = <<>>
    THEN <<[chunk EXCEPT !.content = CharsTake(@, chars_budget)]>>
    ELSE result

\* The for loop over the sorted chunks.
RECURSIVE TruncLoop(_, _, _, _)
TruncLoop(rest, total_chars, result, chars_budget) ==
    IF rest = <<>>
    THEN result
    ELSE LET chunk == Head(rest)
             chunk_chars == ByteLen(chunk.content)
         IN  IF OverBudget(total_chars, chunk_chars, chars_budget)
             THEN CutOff(result, chunk, chars_budget)
             ELSE TruncLoop(Tail(rest), total_chars + chunk_chars,
                            Append(result, chunk), chars_budget)

\* truncate_to_budget(chunks, max_tokens)
TruncateToBudget(chunks, max_tokens) ==
    TruncLoop(SortByLen(chunks), 0, <<>>, max_tokens * CharsPerToken)

\* A call of truncate_to_budget with any chunk list and any budget.
InitTruncate ==
    /\ EngineIdle
    /\ CacheIdle
    /\ AnalyzeIdle
    /\ SearchIdle
    /\ CallIdle
    /\ \E n \in 0..MaxChunks : \E f \in [1..n -> Contents] :
          tb_chunks = [i \in 1..n |-> DocChunkOf(i, f[i])]
    /\ tb_max_tokens \in 0..MaxTokens
    /\ tb_result = <<>>
    /\ tb_pc = "call"

\* The call runs to its return.
TruncateCall ==
    /\ tb_pc = "call"
    /\ tb_result' = TruncateToBudget(tb_chunks, tb_max_tokens)
    /\ tb_pc' = "done"
    /\ UNCHANGED <<tb_chunks, tb_max_tokens>>
    /\ UNCHANGED notTrunc

NextTruncate == TruncateCall

SpecTruncate == InitTruncate /\ [][NextTruncate]_vars

----------------------------------------------------------------------------
\* Properties of token-budget truncation

RECURSIVE TotalLen(_)
TotalLen(chunks) ==
    IF chunks = <<>>
    THEN 0
    ELSE ByteLen(Head(chunks).content) + TotalLen(Tail(chunks))

IsPrefix(p, s) == Len(p) <= Len(s) /\ p = SubSeq(s, 1, Len(p))

\* C15: the total content length of the returned chunks is at most
\* max_tokens * 4, unless the result is exactly one chunk, the first chunk of
\* the sorted input with a prefix of its content.
C15_WithinBudget ==
    tb_pc = "done" =>
        \/ TotalLen(tb_result) <= tb_max_tokens * CharsPerToken
        \/ /\ Len(tb_result) = 1
           /\ tb_result[1].key = SortByLen(tb_chunks)[1].key
           /\ IsPrefix(tb_result[1].content, SortByLen(tb_chunks)[1].content)

\* Two chunks fit and a third one is dropped because it would exceed a
\* non-zero budget.
C15_Witness ==
    /\ tb_pc = "done"
    /\ tb_max_tokens > 0
    /\ Len(tb_result) = 2
    /\ Len(tb_chunks) = 3
    /\ TotalLen(tb_result) <= tb_max_tokens * CharsPerToken
    /\ TotalLen(tb_chunks) > tb_max_tokens * CharsPerToken

\* C16: a non-empty chunk list yields a non-empty result for every budget,
\* zero included; when the shortest chunk is longer than the budget the result
\* is that chunk alone, its content cut to the first max_tokens * 4
\* characters.
C16_NeverEmpty ==
    (tb_pc = "done" /\ tb_chunks # <<>>) =>
        LET first == SortByLen(tb_chunks)[1]
            chars_budget == tb_max_tokens * CharsPerToken
        IN  /\ tb_result # <<>>
            /\ ByteLen(first.content) > chars_budget =>
                 /\ Len(tb_result) = 1
                 /\ tb_result[1].key = first.key
                 /\ IsPrefix(tb_result[1].content, first.content)
                 /\ Len(tb_result[1].content)
                      = Min({chars_budget, Len(first.content)})

\* With a budget of zero and only non-empty chunks, one chunk with empty
\* content is returned.
C16_Witness ==
    /\ tb_pc = "done"
    /\ tb_max_tokens = 0
    /\ Len(tb_chunks) >= 2
    /\ \A i \in 1..Len(tb_chunks) : tb_chunks[i].content # <<>>
    /\ Len(tb_result) = 1
    /\ tb_result[1].content = <<>>

----------------------------------------------------------------------------
\* The query cache (src/cache.rs)

\* Largest number of lines of a diff.
MaxDiffLines == 1

\* Number of distinct cache keys.
NumKeys == 2

\* Largest number of queries in one list.
MaxQueries == 1

\* Latest clock value.
MaxTime == 2

\* The configured ttl, in seconds.
Ttl == 1

\* A line of a diff: whether it starts with "diff --git", and the text after
\* its first " b/" ("None" when it has none).
DiffLines == [git : BOOLEAN, b_path : {"None", "README.md", "src/api.rs"}]

Diffs == UNION {[1..n -> DiffLines] : n \in 0..MaxDiffLines}

Keys == 0..(NumKeys - 1)

\* The value a line contributes to the digest.
LineCode(line) ==
    (IF line.git THEN 1 ELSE 0)
      + (CASE line.b_path = "None" -> 0
           [] line.b_path = "README.md" -> 2
           [] OTHER -> 3)

\* cache_key: a digest of the diff's bytes cut to a fixed width, so two diffs
\* can share a key.
RECURSIVE CacheKey(_)
CacheKey(diff) ==
    IF diff = <<>>
    THEN 0
    ELSE (3 * CacheKey(SubSeq(diff, 1, Len(diff) - 1))
            + LineCode(diff[Len(diff)]) + 1) % NumKeys

\* The query strings.
Queries == 1..MaxQueries

\* The query lists in play: the first n query strings, for every n.
QueryLists == {[i \in 1..n |-> i] : n \in 0..MaxQueries}

\* A piece of a JSON document.
Tok(kind, val) == <<kind, val>>

\* serde_json::to_string_pretty(&CacheEntry { queries, created_at })
Serialize(queries, created_at) ==
    <<Tok("{", 0)>> \o [i \in 1..Len(queries) |-> Tok("q", queries[i])]
        \o <<Tok("@", 0), Tok("t", created_at), Tok("}", 0)>>

\* serde_json::from_str::<CacheEntry>(&content)
Parse(content) ==
    LET n == Len(content)
    IN  IF /\ n >= 4
           /\ content[1] = Tok("{", 0)
           /\ content[n] = Tok("}", 0)
           /\ content[n - 1][1] = "t"
           /\ content[n - 2] = Tok("@", 0)
           /\ \A i \in 2..(n - 3) : content[i][1] = "q"
        THEN [ok |-> TRUE,
              queries |-> [i \in 1..(n - 4) |-> content[i + 1][2]],
              created_at |-> content[n - 1][2]]
        ELSE [ok |-> FALSE, queries |-> <<>>, created_at |-> 0]

\* A path of the cache directory: no file, or a file and its content.
Absent == [exists |-> FALSE, content |-> <<>>]

FileOf(content) == [exists |-> TRUE, content |-> content]

\* The files a cache directory can hold when it is found: none, an entry
\* written earlier, or something that is not an entry.
FoundFiles ==
    {Absent, FileOf(<<Tok("{", 0)>>)}
        \cup {FileOf(Serialize([i \in 1..MaxQueries |-> i], 0))}

\* write_all at offset 0 of a file that holds old.
Overlay(doc, old) == doc \o SubSeq(old, Len(doc) + 1, Len(old))

Expired_AtTtl(created_at, t, seconds) == t - created_at >= seconds

\* age > ttl
Expired(created_at, t, seconds) == t - created_at > seconds

\* Two independent invocations that store concurrently.
Writers == {"w1", "w2"}

\* One diff for every key that some diff has: get_queries and store_queries
\* use their diff through cache_key alone.
KeyDiffs ==
    {CHOOSE diff \in Diffs : CacheKey(diff) = key :
        key \in {CacheKey(diff) : diff \in Diffs}}

LookupIdle ==
    [pc |-> "idle", key |-> 0, found |-> FALSE, read |-> FALSE,
     content |-> <<>>, t |-> 0, result |-> "None", queries |-> <<>>]

WriterIdle ==
    [pc |-> "idle", key |-> 0, doc |-> <<>>, linked |-> FALSE,
     result |-> "None"]

\* A cache directory used by one looking-up process and the storing ones.
InitCache ==
    /\ EngineIdle
    /\ TruncIdle
    /\ AnalyzeIdle
    /\ SearchIdle
    /\ CallIdle
    /\ cache \in [Keys -> FoundFiles]
    /\ now = 0
    /\ ttl = Ttl
    /\ lookup = LookupIdle
    /\ writers = [w \in Writers |-> WriterIdle]

\* The clock advances.
Tick ==
    /\ now < MaxTime
    /\ now' = now + 1
    /\ UNCHANGED <<cache, ttl, lookup, writers>>
    /\ UNCHANGED notCache

\* get_queries, up to `if !cache_file.exists() { return None; }`
LookupExists(diff) ==
    /\ lookup.pc = "idle"
    /\ LET key == CacheKey(diff)
       IN  lookup' = IF cache[key].exists
                     THEN [LookupIdle EXCEPT !.pc = "read", !.key = key,
                                             !.found = TRUE]
                     ELSE [LookupIdle EXCEPT !.pc = "done", !.key = key]
    /\ UNCHANGED <<cache, now, ttl, writers>>
    /\ UNCHANGED notCache

\* read_to_string(..).ok()? and from_str(..).ok()?
LookupRead ==
    /\ lookup.pc = "read"
    /\ LET file == cache[lookup.key]
       IN  lookup' =
             IF ~file.exists
             THEN [lookup EXCEPT !.pc = "done"]
             ELSE IF Parse(file.content).ok
             THEN [lookup EXCEPT !.pc = "ttl", !.read = TRUE,
                                 !.content = file.content]
             ELSE [lookup EXCEPT !.pc = "done", !.read = TRUE,
                                 !.content = file.content]
    /\ UNCHANGED <<cache, now, ttl, writers>>
    /\ UNCHANGED notCache

\* read_to_string fails on a file that exists (unreadable entry).
LookupReadErr ==
    /\ lookup.pc = "read"
    /\ lookup' = [lookup EXCEPT !.pc = "done"]
    /\ UNCHANGED <<cache, now, ttl, writers>>
    /\ UNCHANGED notCache

\* The TTL check: age = Utc::now() - entry.created_at; if age > ttl.
LookupTtl ==
    /\ lookup.pc = "ttl"
    /\ LET entry == Parse(lookup.content)
       IN  lookup' =
             IF Expired(entry.created_at, now, ttl)
             THEN [lookup EXCEPT !.pc = "remove", !.t = now]
             ELSE [lookup EXCEPT !.pc = "done", !.t = now,
                                 !.result = "Some",
                                 !.queries = entry.queries]
    /\ UNCHANGED <<cache, now, ttl, writers>>
    /\ UNCHANGED notCache

\* let _ = fs::remove_file(&cache_file); return None.  A process that holds
\* the removed file open keeps writing to it, out of the directory.
LookupRemove ==
    /\ lookup.pc = "remove"
    /\ cache' = [cache EXCEPT ![lookup.key] = Absent]
    /\ writers' = [w \in Writers |->
                     IF writers[w].key = lookup.key
                     THEN [writers[w] EXCEPT !.linked = FALSE]
                     ELSE writers[w]]
    /\ lookup' = [lookup EXCEPT !.pc = "done"]
    /\ UNCHANGED <<now, ttl>>
    /\ UNCHANGED notCache

\* store_queries up to the first half of fs::write: the entry is built with
\* created_at = Utc::now(), then File::create makes or truncates the file.
StoreOpen(w, diff, queries) ==
    /\ writers[w].pc = "idle"
    /\ LET key == CacheKey(diff)
       IN  /\ cache' = [cache EXCEPT ![key] = FileOf(<<>>)]
           /\ writers' = [writers EXCEPT ![w] =
                            [pc |-> "opened", key |-> key,
                             doc |-> Serialize(queries, now),
                             linked |-> TRUE, result |-> "None"]]
    /\ UNCHANGED <<now, ttl, lookup>>
    /\ UNCHANGED notCache

\* create_dir_all or File::create fails: CacheError, nothing written.
StoreOpenErr(w) ==
    /\ writers[w].pc = "idle"
    /\ writers' = [writers EXCEPT ![w].pc = "done",
                                  ![w].result = "Err(CacheError)"]
    /\ UNCHANGED <<cache, now, ttl, lookup>>
    /\ UNCHANGED notCache

\* The second half of fs::write: write_all from the start of the file.
StoreWrite(w) ==
    /\ writers[w].pc = "opened"
    /\ cache' = IF writers[w].linked
                THEN [cache EXCEPT ![writers[w].key] =
                        FileOf(Overlay(writers[w].doc, @.content))]
                ELSE cache
    /\ writers' = [writers EXCEPT ![w].pc = "done", ![w].result = "Ok"]
    /\ UNCHANGED <<now, ttl, lookup>>
    /\ UNCHANGED notCache

\* write_all fails after the file was truncated: CacheError.
StoreWriteErr(w) ==
    /\ writers[w].pc = "opened"
    /\ writers' = [writers EXCEPT ![w].pc = "done",
                                  ![w].result = "Err(CacheError)"]
    /\ UNCHANGED <<cache, now, ttl, lookup>>
    /\ UNCHANGED notCache

NextCache ==
    \/ Tick
    \/ \E diff \in KeyDiffs : LookupExists(diff)
    \/ LookupRead
    \/ LookupReadErr
    \/ LookupTtl
    \/ LookupRemove
    \/ \E w \in Writers, diff \in KeyDiffs, queries \in QueryLists :
          StoreOpen(w, diff, queries)
    \/ \E w \in Writers : StoreOpenErr(w)
    \/ \E w \in Writers : StoreWrite(w)
    \/ \E w \in Writers : StoreWriteErr(w)

SpecCache == InitCache /\ [][NextCache]_vars

----------------------------------------------------------------------------
\* Properties of the query cache

\* What get_queries has to return for what it found: a miss when there was
\* no file, when the file could not be read or parsed, or when the entry read
\* was older than ttl at the time of the check; the entry's queries otherwise.
LookupExpected ==
    IF ~lookup.found \/ ~lookup.read \/ ~Parse(lookup.content).ok
    THEN [result |-> "None", queries |-> <<>>]
    ELSE IF lookup.t - Parse(lookup.content).created_at <= ttl
    THEN [result |-> "Some", queries |-> Parse(lookup.content).queries]
    ELSE [result |-> "None", queries |-> <<>>]

C18_AtomicStore ==
    /\ lookup.read =>
         \/ FileOf(lookup.content) \in FoundFiles
         \/ \E w \in Writers :
               /\ writers[w].pc # "idle"
               /\ writers[w].key = lookup.key
               /\ lookup.content = writers[w].doc
    /\ \A k \in Keys :
         (/\ \A w \in Writers :
                /\ writers[w].pc = "done"
                /\ writers[w].result = "Ok"
                /\ writers[w].key = k
          /\ cache[k].exists)
           => \E w \in Writers : cache[k].content = writers[w].doc

----------------------------------------------------------------------------
\* The analysis pipeline (src/analyzer.rs, analyze)

\* ParsedDiff::parse(diff).files: the text after " b/" of every line that
\* starts with "diff --git" and has one.
ParseFiles(diff) ==
    LET IsFileLine(line) == line.git /\ line.b_path # "None"
        kept == SelectSeq(diff, IsFileLine)
    IN  [i \in 1..Len(kept) |-> kept[i].b_path]

NoFiles_Never(diff) == FALSE

\* parsed.files.is_empty()
NoFiles(diff) == ParseFiles(diff) = <<>>

UseCache_Always(enabled) == TRUE

\* if config.cache.enabled
UseCache(enabled) == enabled

StageEmpty_Never(list) == FALSE

\* queries.is_empty(), doc_chunks.is_empty()
StageEmpty(list) == list = <<>>

\* What search::find_relevant_docs can return to analyze when it succeeds.
SearchResults == {<<>>} \cup {<<DocChunkOf(1, c)>> : c \in Contents}

\* What llm::analyze_consistency can parse from the model's answer.
RawIssueLists == {<<>>, <<"issue">>}

\* analyze returns.
Return(result, issues) ==
    [an EXCEPT !.pc = "done", !.result = result, !.issues = issues]

\* A call of analyze with any diff and configuration, on any cache directory.
InitAnalyze ==
    /\ EngineIdle
    /\ TruncIdle
    /\ SearchIdle
    /\ CallIdle
    /\ cache \in [Keys -> FoundFiles]
    /\ now = 0
    /\ ttl = Ttl
    /\ lookup = LookupIdle
    /\ writers = [w \in Writers |-> WriterIdle]
    /\ \E diff \in Diffs, enabled \in BOOLEAN, max_tokens \in 0..MaxTokens :
          an = [pc |-> "parse", diff |-> diff, enabled |-> enabled,
                max_context_tokens |-> max_tokens, cached |-> "None",
                queries |-> <<>>, doc_chunks |-> <<>>, result |-> "None",
                issues |-> <<>>, trace |-> <<>>]

\* The diff is parsed; without files analyze returns at once, with files the
\* queries come from the cache or from the language model.
AnalyzeParse ==
    /\ an.pc = "parse"
    /\ an' = IF NoFiles(an.diff)
             THEN Return("Ok", <<>>)
             ELSE IF UseCache(an.enabled)
             THEN [an EXCEPT !.pc = "get_queries"]
             ELSE [an EXCEPT !.pc = "generate"]
    /\ UNCHANGED cachev
    /\ UNCHANGED notAnalyze

\* cache::get_queries(diff) is entered.
AnalyzeGetQueries ==
    /\ an.pc = "get_queries"
    /\ LookupExists(an.diff)

\* cache::get_queries(diff) has returned: Some(cached) or None.
AnalyzeGetQueriesReturn ==
    /\ an.pc = "get_queries"
    /\ lookup.pc = "done"
    /\ an' = IF lookup.result = "Some"
             THEN [an EXCEPT !.pc = "check_queries", !.cached = "Some",
                             !.queries = lookup.queries,
                             !.trace = Append(@, "get_queries")]
             ELSE [an EXCEPT !.pc = "generate", !.cached = "Miss",
                             !.trace = Append(@, "get_queries")]
    /\ UNCHANGED cachev
    /\ UNCHANGED notAnalyze

\* An analyze that keeps an empty query list out of the cache.
AnalyzeGenerate_SkipEmptyStore(queries) ==
    /\ an.pc = "generate"
    /\ an' = [an EXCEPT !.pc = IF UseCache(an.enabled) /\ queries # <<>>
                               THEN "store_queries"
                               ELSE "check_queries",
                        !.queries = queries,
                        !.trace = Append(@, "generate_search_queries")]
    /\ UNCHANGED cachev
    /\ UNCHANGED notAnalyze

\* llm::generate_search_queries(config, diff).await? answers with a list.
AnalyzeGenerate(queries) ==
    /\ an.pc = "generate"
    /\ an' = [an EXCEPT !.pc = IF UseCache(an.enabled)
                               THEN "store_queries"
                               ELSE "check_queries",
                        !.queries = queries,
                        !.trace = Append(@, "generate_search_queries")]
    /\ UNCHANGED cachev
    /\ UNCHANGED notAnalyze

\* llm::generate_search_queries(config, diff).await? fails.
AnalyzeGenerateErr ==
    /\ an.pc = "generate"
    /\ an' = [Return("Err(LlmError)", <<>>) EXCEPT
                !.trace = Append(@, "generate_search_queries")]
    /\ UNCHANGED cachev
    /\ UNCHANGED notAnalyze

\* cache::store_queries(diff, &queries) is entered.
AnalyzeStoreQueries ==
    /\ an.pc = "store_queries"
    /\ \/ StoreOpen("w1", an.diff, an.queries)
       \/ StoreOpenErr("w1")

\* cache::store_queries has returned; an Err is only logged.
AnalyzeStoreQueriesReturn ==
    /\ an.pc = "store_queries"
    /\ writers["w1"].pc = "done"
    /\ an' = [an EXCEPT !.pc = "check_queries",
                        !.trace = Append(@, "store_queries")]
    /\ UNCHANGED cachev
    /\ UNCHANGED notAnalyze

\* if queries.is_empty() { return Ok(vec![]); }
AnalyzeCheckQueries ==
    /\ an.pc = "check_queries"
    /\ an' = IF StageEmpty(an.queries)
             THEN Return("Ok", <<>>)
             ELSE [an EXCEPT !.pc = "search"]
    /\ UNCHANGED cachev
    /\ UNCHANGED notAnalyze

\* search::find_relevant_docs(..).await? succeeds; without chunks analyze
\* returns, with chunks they are cut to the token budget.
AnalyzeSearch(doc_chunks) ==
    /\ an.pc = "search"
    /\ an' = IF StageEmpty(doc_chunks)
             THEN [Return("Ok", <<>>) EXCEPT
                     !.trace = Append(@, "find_relevant_docs")]
             ELSE [an EXCEPT
                     !.pc = "analyze_consistency",
                     !.doc_chunks =
                        TruncateToBudget(doc_chunks, an.max_context_tokens),
                     !.trace = Append(@, "find_relevant_docs")]
    /\ UNCHANGED cachev
    /\ UNCHANGED notAnalyze

\* search::find_relevant_docs(..).await? fails.
AnalyzeSearchErr ==
    /\ an.pc = "search"
    /\ an' = [Return("Err(RipgrepNotFound)", <<>>) EXCEPT
                !.trace = Append(@, "find_relevant_docs")]
    /\ UNCHANGED cachev
    /\ UNCHANGED notAnalyze

\* llm::analyze_consistency(config, diff, &doc_chunks).await? answers; it
\* makes no request for an empty chunk list.
AnalyzeConsistency(raw_issues) ==
    /\ an.pc = "analyze_consistency"
    /\ an' = IF an.doc_chunks = <<>>
             THEN Return("Ok", <<>>)
             ELSE [Return("Ok", raw_issues) EXCEPT
                     !.trace = Append(@, "analyze_consistency")]
    /\ UNCHANGED cachev
    /\ UNCHANGED notAnalyze

\* llm::analyze_consistency(config, diff, &doc_chunks).await? fails.
AnalyzeConsistencyErr ==
    /\ an.pc = "analyze_consistency"
    /\ an.doc_chunks # <<>>
    /\ an' = [Return("Err(LlmError)", <<>>) EXCEPT
                !.trace = Append(@, "analyze_consistency")]
    /\ UNCHANGED cachev
    /\ UNCHANGED notAnalyze

NextAnalyze ==
    \/ Tick
    \/ AnalyzeParse
    \/ AnalyzeGetQueries
    \/ LookupRead
    \/ LookupReadErr
    \/ LookupTtl
    \/ LookupRemove
    \/ AnalyzeGetQueriesReturn
    \/ \E queries \in QueryLists : AnalyzeGenerate(queries)
    \/ AnalyzeGenerateErr
    \/ AnalyzeStoreQueries
    \/ StoreWrite("w1")
    \/ StoreWriteErr("w1")
    \/ AnalyzeStoreQueriesReturn
    \/ AnalyzeCheckQueries
    \/ \E doc_chunks \in SearchResults : AnalyzeSearch(doc_chunks)
    \/ AnalyzeSearchErr
    \/ \E raw_issues \in RawIssueLists : AnalyzeConsistency(raw_issues)
    \/ AnalyzeConsistencyErr

SpecAnalyze == InitAnalyze /\ [][NextAnalyze]_vars

\* analyze has returned and a later invocation analyzes the same diff with
\* the same configuration, on the cache directory as the earlier one left it.
AnalyzeAgain ==
    /\ an.pc = "done"
    /\ an' = [pc |-> "parse", diff |-> an.diff, enabled |-> an.enabled,
              max_context_tokens |-> an.max_context_tokens,
              cached |-> "None", queries |-> <<>>, doc_chunks |-> <<>>,
              result |-> "None", issues |-> <<>>, trace |-> <<>>]
    /\ lookup' = LookupIdle
    /\ writers' = [w \in Writers |-> WriterIdle]
    /\ UNCHANGED <<cache, now, ttl>>
    /\ UNCHANGED notAnalyze

NextAnalyzeRepeat ==
    \/ NextAnalyze
    \/ AnalyzeAgain

\* One analyze after the other of the same diff.
SpecAnalyzeRepeat == InitAnalyze /\ [][NextAnalyzeRepeat]_vars

----------------------------------------------------------------------------
\* Properties of the analysis pipeline

\* The call named e has been made.
InTrace(e) == \E i \in DOMAIN an.trace : an.trace[i] = e

\* C12: for a diff in which no changed file is found, analyze returns an
\* empty issue list, having called neither the cache nor the search nor the
\* language model, and no step of the call touches the cache directory.
C12_NoFilesNoWork ==
    /\ []((an.pc = "done" /\ ParseFiles(an.diff) = <<>>) =>
            /\ an.result = "Ok"
            /\ an.issues = <<>>
            /\ an.trace = <<>>)
    /\ [][ParseFiles(an.diff) = <<>> =>
            /\ cache' = cache
            /\ lookup' = lookup
            /\ writers' = writers]_vars

\* A diff with lines but without a file line has been analyzed with caching
\* enabled and an entry under its key.
C12_Witness ==
    /\ an.pc = "done"
    /\ an.diff # <<>>
    /\ ParseFiles(an.diff) = <<>>
    /\ an.enabled
    /\ cache[CacheKey(an.diff)].exists
    /\ an.result = "Ok"

\* The query stage of the call is over.
QueriesStageOver ==
    /\ ParseFiles(an.diff) # <<>>
    /\ an.pc \notin {"parse", "get_queries", "generate"}

\* C13: query generation is requested exactly when caching is disabled or
\* the lookup missed.  On a hit the queries are the cached ones and nothing is
\* requested; on a miss store_queries is called with the diff and the generated
\* queries before any search, and when it succeeds the entry under the diff's
\* key holds them; with caching disabled the cache is neither read nor
\* written.
C13_QuerySource ==
    /\ [](/\ InTrace("generate_search_queries") =>
               (~an.enabled \/ an.cached = "Miss")
          /\ (QueriesStageOver /\ (~an.enabled \/ an.cached = "Miss")) =>
               InTrace("generate_search_queries")
          /\ an.cached = "Some" =>
               /\ ~InTrace("generate_search_queries")
               /\ ~InTrace("store_queries")
               /\ an.queries = Parse(lookup.content).queries
          /\ (an.cached = "Miss"
                /\ an.pc \in {"check_queries", "search", "analyze_consistency"})
               => /\ InTrace("store_queries")
                  /\ writers["w1"].doc # <<>> =>
                       /\ writers["w1"].key = CacheKey(an.diff)
                       /\ Parse(writers["w1"].doc).queries = an.queries
                  /\ writers["w1"].result = "Ok" =>
                       /\ writers["w1"].doc # <<>>
                       /\ cache[CacheKey(an.diff)].exists
                       /\ Parse(cache[CacheKey(an.diff)].content).ok
                       /\ Parse(cache[CacheKey(an.diff)].content).queries
                            = an.queries
          /\ \A i \in DOMAIN an.trace :
               (an.trace[i] = "find_relevant_docs" /\ an.cached = "Miss") =>
                  \E j \in 1..(i - 1) : an.trace[j] = "store_queries"
          /\ ~an.enabled =>
               /\ ~InTrace("get_queries")
               /\ ~InTrace("store_queries")
               /\ lookup = LookupIdle
               /\ writers["w1"] = WriterIdle)
    /\ [][~an.enabled => cache' = cache]_vars

\* After a miss the generated queries are in the cache and the search is
\* about to run.
C13_Witness ==
    /\ an.pc = "search"
    /\ an.cached = "Miss"
    /\ lookup.found
    /\ an.queries # <<>>
    /\ writers["w1"].result = "Ok"
    /\ Parse(cache[CacheKey(an.diff)].content).queries = an.queries

\* C14: an empty query list ends the call with Ok and no issues before any
\* search, and a search without chunks ends it with Ok and no issues before
\* the consistency request.
C14_EmptyStageStops ==
    /\ InTrace("find_relevant_docs") => an.queries # <<>>
    /\ InTrace("analyze_consistency") => an.doc_chunks # <<>>
    /\ (/\ an.pc = "done"
        /\ ParseFiles(an.diff) # <<>>
        /\ an.queries = <<>>
        /\ an.result # "Err(LlmError)")
         => /\ an.result = "Ok"
            /\ an.issues = <<>>
            /\ ~InTrace("find_relevant_docs")
    /\ (/\ an.pc = "done"
        /\ InTrace("find_relevant_docs")
        /\ an.doc_chunks = <<>>
        /\ an.result # "Err(RipgrepNotFound)")
         => /\ an.result = "Ok"
            /\ an.issues = <<>>
            /\ ~InTrace("analyze_consistency")

\* Cached queries were searched for and no chunk was found.
C14_Witness ==
    /\ an.pc = "done"
    /\ an.cached = "Some"
    /\ an.queries # <<>>
    /\ an.trace = <<"get_queries", "find_relevant_docs">>
    /\ an.result = "Ok"
    /\ an.issues = <<>>

\* The lookup of the call read an entry that parses and was not older than
\* ttl when it was checked.
LookupFresh ==
    /\ lookup.found
    /\ lookup.read
    /\ Parse(lookup.content).ok
    /\ lookup.pc = "done"
    /\ lookup.t - Parse(lookup.content).created_at <= ttl

\* C39: with caching enabled, an empty query list generated after a miss is
\* handed to store_queries, and when the store succeeds the entry of the
\* diff's key holds the empty list; an analyze whose lookup reads an entry
\* with the empty list that is not older than ttl returns Ok with no issues,
\* with no request to the language model and no search.
C39_EmptyListCached ==
    /\ (/\ an.cached = "Miss"
        /\ InTrace("generate_search_queries")
        /\ an.queries = <<>>
        /\ an.pc \in {"check_queries", "done"}
        /\ an.result # "Err(LlmError)")
         => /\ InTrace("store_queries")
            /\ writers["w1"].doc # <<>> =>
                 /\ writers["w1"].key = CacheKey(an.diff)
                 /\ Parse(writers["w1"].doc).queries = <<>>
            /\ writers["w1"].result = "Ok" =>
                 /\ cache[CacheKey(an.diff)].exists
                 /\ Parse(cache[CacheKey(an.diff)].content).ok
                 /\ Parse(cache[CacheKey(an.diff)].content).queries = <<>>
    /\ (/\ an.cached # "None"
        /\ LookupFresh
        /\ Parse(lookup.content).queries = <<>>)
         => /\ an.cached = "Some"
            /\ an.queries = <<>>
            /\ an.trace = <<"get_queries">>
            /\ an.pc = "done" => (an.result = "Ok" /\ an.issues = <<>>)

\* A later analyze of the diff has returned no issues from the empty list
\* that an earlier one stored.
C39_Witness ==
    /\ an.pc = "done"
    /\ an.enabled
    /\ an.cached = "Some"
    /\ Parse(cache[CacheKey(an.diff)].content).ok
    /\ Parse(cache[CacheKey(an.diff)].content).queries = <<>>
    /\ an.trace = <<"get_queries">>
    /\ an.result = "Ok"
    /\ an.issues = <<>>

----------------------------------------------------------------------------
\* The documentation search (src/search.rs, find_relevant_docs)

\* Largest number of queries.
MaxSearches == 2

\* Number of documentation files.
NumDocFiles == 2

\* Largest number of lines of a chunk after its first.
MaxSpan == 1

\* "Merge if same file and lines are close (within 5 lines)".
MergeGap == 5

\* The documentation files, in the order of their paths.
DocFiles == 1..NumDocFiles

\* The lines at which a chunk can start: the top of a file, and a line more
\* than MergeGap below it.
StartLines == {1, MergeGap + 2}

\* create_chunk: content stands for the joined lines start_line..end_line.
Chunk(file, start_line, end_line) ==
    [file |-> file, start_line |-> start_line, end_line |-> end_line,
     content |-> [i \in 1..(end_line - start_line + 1) |-> start_line + i - 1]]

\* What the output of rg for one query can parse to: nothing, or one chunk.
RgOutputs ==
    {<<>>} \cup {<<Chunk(f, s, s + d)>> :
                   f \in DocFiles, s \in StartLines, d \in 0..MaxSpan}

\* How a search_query task can end: Ok(chunks) with the chunks parsed from
\* rg's output, Err(SearchError) after rg exited with an error, whatever it
\* had printed, or a panic, seen by the join as a JoinError.
TaskEnds ==
    {[outcome |-> o, stdout |-> out] :
        o \in {"Ok", "Err(SearchError)"}, out \in RgOutputs}
      \cup {[outcome |-> "JoinError", stdout |-> <<>>]}

\* A spawned task that has not completed.
Running == [state |-> "running", outcome |-> "None", stdout |-> <<>>]

\* (chunk.file.clone(), chunk.start_line)
ChunkKey(chunk) == <<chunk.file, chunk.start_line>>

JoinedChunks_AnyOutcome(task) == task.stdout

\* The chunks one handle.await contributes: those of Ok(Ok(chunks)); the
\* arms Ok(Err(e)) and Err(e) only log.
JoinedChunks(task) == IF task.outcome = "Ok" THEN task.stdout ELSE <<>>

RECURSIVE Dedupe_KeepAll(_, _, _)
Dedupe_KeepAll(chunks, all_chunks, seen) ==
    IF chunks = <<>>
    THEN [all_chunks |-> all_chunks, seen |-> seen]
    ELSE Dedupe_KeepAll(Tail(chunks), Append(all_chunks, Head(chunks)),
                        seen \cup {ChunkKey(Head(chunks))})

\* The inner loop of the join: chunks whose key was seen are skipped.
RECURSIVE Dedupe(_, _, _)
Dedupe(chunks, all_chunks, seen) ==
    IF chunks = <<>>
    THEN [all_chunks |-> all_chunks, seen |-> seen]
    ELSE IF ChunkKey(Head(chunks)) \in seen
    THEN Dedupe(Tail(chunks), all_chunks, seen)
    ELSE Dedupe(Tail(chunks), Append(all_chunks, Head(chunks)),
                seen \cup {ChunkKey(Head(chunks))})

\* a.file.cmp(&b.file).then(a.start_line.cmp(&b.start_line)) is not Greater
ChunkLeq(a, b) ==
    \/ a.file < b.file
    \/ a.file = b.file /\ a.start_line <= b.start_line

\* One step of the stable sort: c goes after every chunk that is not greater.
InsertChunk(sorted, c) ==
    LET k == Cardinality({i \in 1..Len(sorted) : ChunkLeq(sorted[i], c)})
    IN  SubSeq(sorted, 1, k) \o <<c>> \o SubSeq(sorted, k + 1, Len(sorted))

\* all_chunks.sort_by(..)
RECURSIVE SortChunks(_)
SortChunks(chunks) ==
    IF chunks = <<>>
    THEN <<>>
    ELSE InsertChunk(SortChunks(SubSeq(chunks, 1, Len(chunks) - 1)),
                     chunks[Len(chunks)])

MergeStep_ByEnd(merged, chunk) ==
    IF /\ merged # <<>>
       /\ merged[Len(merged)].file = chunk.file
       /\ chunk.end_line <= merged[Len(merged)].end_line + MergeGap
    THEN [merged EXCEPT ![Len(merged)] =
            [@ EXCEPT !.end_line = chunk.end_line,
                      !.content = @ \o <<0>> \o chunk.content]]
    ELSE Append(merged, chunk)

\* One iteration of merge_adjacent_chunks; 0 stands for the "\n...\n" put
\* between the merged contents.
MergeStep(merged, chunk) ==
    IF /\ merged # <<>>
       /\ merged[Len(merged)].file = chunk.file
       /\ chunk.start_line <= merged[Len(merged)].end_line + MergeGap
    THEN [merged EXCEPT ![Len(merged)] =
            [@ EXCEPT !.end_line = chunk.end_line,
                      !.content = @ \o <<0>> \o chunk.content]]
    ELSE Append(merged, chunk)

\* merge_adjacent_chunks
RECURSIVE MergeAdjacentChunks(_)
MergeAdjacentChunks(chunks) ==
    IF chunks = <<>>
    THEN <<>>
    ELSE MergeStep(MergeAdjacentChunks(SubSeq(chunks, 1, Len(chunks) - 1)),
                   chunks[Len(chunks)])

OkResult(chunks) == [kind |-> "Ok", chunks |-> chunks]

ErrResult(e) == [kind |-> e, chunks |-> <<>>]

\* A call of find_relevant_docs with any number of queries.
InitSearch ==
    /\ EngineIdle
    /\ TruncIdle
    /\ CacheIdle
    /\ AnalyzeIdle
    /\ CallIdle
    /\ fd_pc = "start"
    /\ fd_rg \in BOOLEAN
    /\ fd_analyze = "None"
    /\ \E n \in 0..MaxSearches : fd_queries = [i \in 1..n |-> i]
    /\ fd_tasks = <<>>
    /\ fd_order = <<>>
    /\ fd_joined = <<>>
    /\ fd_all_chunks = <<>>
    /\ fd_seen = {}
    /\ fd_result = [kind |-> "None", chunks |-> <<>>]

CheckRipgrep_AlwaysOk == "Ok"

\* check_ripgrep: which::which("rg").map_err(|_| RipgrepNotFound)
CheckRipgrep == IF fd_rg THEN "Ok" ELSE "Err(RipgrepNotFound)"

\* check_ripgrep()? fails: rg is not installed.
FindRipgrepNotFound ==
    /\ fd_pc = "start"
    /\ CheckRipgrep # "Ok"
    /\ fd_pc' = "done"
    /\ fd_result' = ErrResult("Err(RipgrepNotFound)")
    /\ UNCHANGED <<fd_rg, fd_analyze>>
    /\ UNCHANGED <<fd_queries, fd_tasks, fd_order, fd_joined, fd_all_chunks,
                   fd_seen>>
    /\ UNCHANGED notSearch

\* expand_doc_paths found no documentation file.
FindNoDocFiles ==
    /\ fd_pc = "start"
    /\ CheckRipgrep = "Ok"
    /\ fd_pc' = "done"
    /\ fd_result' = OkResult(<<>>)
    /\ UNCHANGED <<fd_rg, fd_analyze>>
    /\ UNCHANGED <<fd_queries, fd_tasks, fd_order, fd_joined, fd_all_chunks,
                   fd_seen>>
    /\ UNCHANGED notSearch

\* One task is spawned per query, its handle pushed in query order.
FindSpawn ==
    /\ fd_pc = "start"
    /\ CheckRipgrep = "Ok"
    /\ fd_pc' = "join"
    /\ fd_tasks' = [i \in 1..Len(fd_queries) |-> Running]
    /\ UNCHANGED <<fd_rg, fd_analyze>>
    /\ UNCHANGED <<fd_queries, fd_order, fd_joined, fd_all_chunks, fd_seen,
                   fd_result>>
    /\ UNCHANGED notSearch

\* The task of query i completes, whatever the other tasks have done.
SearchQuery(i, end) ==
    /\ fd_pc = "join"
    /\ fd_tasks[i].state = "running"
    /\ fd_tasks' = [fd_tasks EXCEPT ![i] =
                      [state |-> "finished", outcome |-> end.outcome,
                       stdout |-> end.stdout]]
    /\ fd_order' = Append(fd_order, i)
    /\ UNCHANGED <<fd_rg, fd_analyze>>
    /\ UNCHANGED <<fd_pc, fd_queries, fd_joined, fd_all_chunks, fd_seen,
                   fd_result>>
    /\ UNCHANGED notSearch

NextHandle_AnyFinished(i) == i \notin {fd_joined[j] : j \in DOMAIN fd_joined}

\* for handle in handles: the handles are awaited in the order of the queries.
NextHandle(i) == i = Len(fd_joined) + 1

\* handle.await returns for the next handle once its task has completed.
FindJoin(i) ==
    /\ fd_pc = "join"
    /\ NextHandle(i)
    /\ fd_tasks[i].state = "finished"
    /\ LET d == Dedupe(JoinedChunks(fd_tasks[i]), fd_all_chunks, fd_seen)
       IN  /\ fd_all_chunks' = d.all_chunks
           /\ fd_seen' = d.seen
    /\ fd_joined' = Append(fd_joined, i)
    /\ UNCHANGED <<fd_rg, fd_analyze>>
    /\ UNCHANGED <<fd_pc, fd_queries, fd_tasks, fd_order, fd_result>>
    /\ UNCHANGED notSearch

\* After the last handle: sort, merge, return Ok(merged).
FindReturn ==
    /\ fd_pc = "join"
    /\ Len(fd_joined) = Len(fd_tasks)
    /\ fd_pc' = "done"
    /\ fd_result' = OkResult(MergeAdjacentChunks(SortChunks(fd_all_chunks)))
    /\ UNCHANGED <<fd_rg, fd_analyze>>
    /\ UNCHANGED <<fd_queries, fd_tasks, fd_order, fd_joined, fd_all_chunks,
                   fd_seen>>
    /\ UNCHANGED notSearch

\* analyze: let doc_chunks = search::find_relevant_docs(..).await?; an Err
\* is returned to the caller of analyze as it is.
AnalyzeAwait ==
    /\ fd_pc = "done"
    /\ fd_pc' = "returned"
    /\ fd_analyze' = IF fd_result.kind = "Ok" THEN "continues"
                     ELSE fd_result.kind
    /\ UNCHANGED <<fd_rg, fd_queries, fd_tasks, fd_order, fd_joined,
                   fd_all_chunks, fd_seen, fd_result>>
    /\ UNCHANGED notSearch

NextSearch ==
    \/ FindRipgrepNotFound
    \/ FindNoDocFiles
    \/ FindSpawn
    \/ \E i \in DOMAIN fd_tasks, end \in TaskEnds : SearchQuery(i, end)
    \/ \E i \in DOMAIN fd_tasks : FindJoin(i)
    \/ FindReturn
    \/ AnalyzeAwait

SpecSearch == InitSearch /\ [][NextSearch]_vars

----------------------------------------------------------------------------
\* Properties of the documentation search

\* The chunks of the queries that succeeded, in the order of the queries.
RECURSIVE OkChunks(_)
OkChunks(handles) ==
    IF handles = <<>>
    THEN <<>>
    ELSE OkChunks(SubSeq(handles, 1, Len(handles) - 1))
           \o (IF handles[Len(handles)].outcome = "Ok"
               THEN handles[Len(handles)].stdout
               ELSE <<>>)

\* Of the chunks with one key the first is kept.
FirstOfKey(chunks) ==
    SelectSeq([i \in 1..Len(chunks) |->
                 [c |-> chunks[i],
                  first |-> \A j \in 1..(i - 1) :
                               ChunkKey(chunks[j]) # ChunkKey(chunks[i])]],
              LAMBDA e : e.first)

\* The chunks of a list without a repeated key, ascending by key.
Ascending(chunks) ==
    CHOOSE s \in [1..Len(chunks) -> {chunks[i] : i \in 1..Len(chunks)}] :
        /\ \A i \in 1..Len(chunks) : \E j \in 1..Len(chunks) : s[j] = chunks[i]
        /\ \A i \in 1..(Len(s) - 1) :
              \/ s[i].file < s[i + 1].file
              \/ /\ s[i].file = s[i + 1].file
                 /\ s[i].start_line < s[i + 1].start_line

\* What the call has to return for the outcomes of its tasks.
Expected(handles) ==
    LET kept == FirstOfKey(OkChunks(handles))
    IN  MergeAdjacentChunks(Ascending([i \in 1..Len(kept) |-> kept[i].c]))

\* C19: when find_relevant_docs returns after spawning, every task has
\* completed, the result is Ok whatever the tasks ended with, and the chunks
\* returned are those the successful queries alone would have given: a failed
\* query adds none and takes none away.
C19_FailedQueryDropped ==
    (fd_pc = "done" /\ fd_tasks # <<>>) =>
        /\ \A i \in DOMAIN fd_tasks : fd_tasks[i].state = "finished"
        /\ fd_result.kind = "Ok"
        /\ fd_seen = {ChunkKey(c) : c \in {OkChunks(fd_tasks)[i] :
                                            i \in DOMAIN OkChunks(fd_tasks)}}
        /\ fd_result.chunks = Expected(fd_tasks)

\* The first query failed after rg had printed a match, the second one
\* succeeded, and its chunk is returned.
C19_Witness ==
    /\ fd_pc = "done"
    /\ Len(fd_tasks) = 2
    /\ fd_tasks[1].outcome = "Err(SearchError)"
    /\ fd_tasks[1].stdout # <<>>
    /\ fd_tasks[2].outcome = "Ok"
    /\ fd_tasks[2].stdout # <<>>
    /\ ChunkKey(fd_tasks[1].stdout[1]) # ChunkKey(fd_tasks[2].stdout[1])
    /\ fd_result = OkResult(fd_tasks[2].stdout)

\* C20: the returned sequence is a function of the query list and of each
\* query's output alone, the same whatever the order in which the tasks
\* completed, and it is strictly ascending by (file, start_line).
C20_OrderIndependent ==
    fd_pc = "done" =>
        /\ fd_tasks # <<>> => fd_result.chunks = Expected(fd_tasks)
        /\ \A i \in 1..(Len(fd_result.chunks) - 1) :
              LET a == fd_result.chunks[i]
                  b == fd_result.chunks[i + 1]
              IN  \/ a.file < b.file
                  \/ a.file = b.file /\ a.start_line < b.start_line

\* The second query completed first; both found a chunk at the same place
\* with different extents, and the first query's chunk is the one returned.
C20_Witness ==
    /\ fd_pc = "done"
    /\ Len(fd_tasks) = 2
    /\ fd_order = <<2, 1>>
    /\ fd_tasks[1].outcome = "Ok"
    /\ fd_tasks[2].outcome = "Ok"
    /\ fd_tasks[1].stdout # <<>>
    /\ fd_tasks[2].stdout # <<>>
    /\ ChunkKey(fd_tasks[1].stdout[1]) = ChunkKey(fd_tasks[2].stdout[1])
    /\ fd_tasks[1].stdout # fd_tasks[2].stdout
    /\ fd_result = OkResult(fd_tasks[1].stdout)

\* C25: when rg is not installed, find_relevant_docs returns
\* Err(RipgrepNotFound) whatever the queries are, no search task is spawned
\* and no chunk collected, and analyze returns that same error.
C25_RipgrepMissing ==
    (~fd_rg /\ fd_pc \in {"join", "done", "returned"}) =>
        /\ fd_pc # "join"
        /\ fd_result = ErrResult("Err(RipgrepNotFound)")
        /\ fd_tasks = <<>>
        /\ fd_order = <<>>
        /\ fd_all_chunks = <<>>
        /\ fd_pc = "returned" => fd_analyze = "Err(RipgrepNotFound)"

\* Without rg a call with queries has failed and analyze has returned the
\* error.
C25_Witness ==
    /\ ~fd_rg
    /\ fd_pc = "returned"
    /\ Len(fd_queries) = MaxSearches
    /\ fd_result.kind = "Err(RipgrepNotFound)"
    /\ fd_analyze = "Err(RipgrepNotFound)"

(***************************************************************************)
(* The chunk pipeline of find_relevant_docs on given search outputs         *)
(* (src/search.rs): the join loop's deduplication, the sort and             *)
(* merge_adjacent_chunks, on chunks that may lie inside one another.        *)
(***************************************************************************)

\* The most queries whose outputs are looked at.
MaxMergeInputs == 3

\* The lines a chunk can start and end at: the top of a file, and one line
\* that is MergeGap below the third.
MergeLines == {1, 2, 3, MergeGap + 3}

\* The chunks create_chunk can build from lines first..last of a file.
MergeChunks ==
    {Chunk(r[1], r[2], r[3]) :
        r \in {t \in DocFiles \X MergeLines \X MergeLines : t[2] <= t[3]}}

\* The join loop over the handles of queries that all succeeded.
RECURSIVE Collect(_)
Collect(outputs) ==
    IF outputs = <<>>
    THEN [all_chunks |-> <<>>, seen |-> {}]
    ELSE LET before == Collect(SubSeq(outputs, 1, Len(outputs) - 1))
         IN  Dedupe(outputs[Len(outputs)], before.all_chunks, before.seen)

\* The searches of any number of queries have each parsed to one chunk.
InitMerge ==
    /\ EngineIdle
    /\ TruncIdle
    /\ CacheIdle
    /\ AnalyzeIdle
    /\ SearchIdle
    /\ \E n \in 0..MaxMergeInputs : \E f \in [1..n -> MergeChunks] :
          call = [pc |-> "join", outputs |-> [i \in 1..n |-> <<f[i]>>],
                all_chunks |-> <<>>, merged |-> <<>>, again |-> <<>>]

\* The handles are awaited in order and all_chunks is sorted.
PipeCollect ==
    /\ call.pc = "join"
    /\ call' = [call EXCEPT !.pc = "merge",
                        !.all_chunks =
                           SortChunks(Collect(call.outputs).all_chunks)]
    /\ UNCHANGED notCall

\* let merged = merge_adjacent_chunks(all_chunks);
PipeMerge ==
    /\ call.pc = "merge"
    /\ call' = [call EXCEPT !.pc = "merged",
                        !.merged = MergeAdjacentChunks(call.all_chunks)]
    /\ UNCHANGED notCall

\* merge_adjacent_chunks called on the list it returned.
PipeMergeAgain ==
    /\ call.pc = "merged"
    /\ call' = [call EXCEPT !.pc = "again",
                        !.again = MergeAdjacentChunks(call.merged)]
    /\ UNCHANGED notCall

NextMerge ==
    \/ PipeCollect
    \/ PipeMerge
    \/ PipeMergeAgain

SpecMerge == InitMerge /\ [][NextMerge]_vars

\* The chunk's line range holds the line of the file.
Covers(chunk, file, line) ==
    /\ chunk.file = file
    /\ chunk.start_line <= line
    /\ line <= chunk.end_line

\* The index of the merged chunk into which the i-th chunk of the merge
\* input went.
MergedInto(chunks, i) == Len(MergeAdjacentChunks(SubSeq(chunks, 1, i)))

\* The merge has run.
MergeDone == call # <<>> /\ call.pc \in {"merged", "again"}

\* C21: when two queries each match the same line of a file, the returned
\* list has exactly one chunk covering that line, and of the chunks with one
\* (file, start_line) the one of the earliest query is kept.
C21_OneChunkPerMatch ==
    MergeDone =>
        /\ \A i, j \in DOMAIN call.outputs : \A f \in DocFiles :
             \A l \in MergeLines :
                (/\ i < j
                 /\ Covers(call.outputs[i][1], f, l)
                 /\ Covers(call.outputs[j][1], f, l))
                   => Cardinality({k \in DOMAIN call.merged :
                                      Covers(call.merged[k], f, l)}) = 1
        /\ \A k \in DOMAIN call.all_chunks : \E i \in DOMAIN call.outputs :
              /\ call.outputs[i][1] = call.all_chunks[k]
              /\ \A j \in 1..(i - 1) :
                    ChunkKey(call.outputs[j][1]) # ChunkKey(call.all_chunks[k])

\* C21 as the code has it: a line that two queries matched is covered by at
\* most one chunk of the returned list, and of the chunks with one
\* (file, start_line) exactly the one of the earliest query is kept.
C21_AtMostOneChunkPerMatch ==
    MergeDone =>
        /\ \A i, j \in DOMAIN call.outputs : \A f \in DocFiles :
             \A l \in MergeLines :
                (/\ i < j
                 /\ Covers(call.outputs[i][1], f, l)
                 /\ Covers(call.outputs[j][1], f, l))
                   => Cardinality({k \in DOMAIN call.merged :
                                      Covers(call.merged[k], f, l)}) <= 1
        /\ \A k \in DOMAIN call.all_chunks : \E i \in DOMAIN call.outputs :
              /\ call.outputs[i][1] = call.all_chunks[k]
              /\ \A j \in 1..(i - 1) :
                    ChunkKey(call.outputs[j][1]) # ChunkKey(call.all_chunks[k])
        /\ \A i \in DOMAIN call.outputs : \E k \in DOMAIN call.all_chunks :
              ChunkKey(call.all_chunks[k]) = ChunkKey(call.outputs[i][1])
        /\ \A k, n \in DOMAIN call.all_chunks :
              ChunkKey(call.all_chunks[k]) = ChunkKey(call.all_chunks[n]) => k = n

\* The first two queries matched line 2 of a file in chunks of one start
\* and different ends, the third matched it in a chunk starting there: the
\* second query's chunk was dropped and one returned chunk covers the line.
C21_Witness ==
    /\ MergeDone
    /\ Len(call.outputs) = 3
    /\ ChunkKey(call.outputs[1][1]) = ChunkKey(call.outputs[2][1])
    /\ call.outputs[1][1] # call.outputs[2][1]
    /\ call.outputs[3][1].start_line = 2
    /\ \A i \in 1..3 : Covers(call.outputs[i][1], 1, 2)
    /\ Len(call.all_chunks) = 2
    /\ Cardinality({k \in DOMAIN call.merged : Covers(call.merged[k], 1, 2)}) = 1

\* C22: every two chunks of one file in the sorted input of the merge, the
\* later starting at most MergeGap lines below the end of the earlier, are in
\* the same chunk of the merged list.
C22_NoBoundaryWithinGap ==
    MergeDone =>
        \A i, j \in DOMAIN call.all_chunks :
            (/\ i < j
             /\ call.all_chunks[i].file = call.all_chunks[j].file
             /\ call.all_chunks[j].start_line - call.all_chunks[i].end_line
                   <= MergeGap)
               => MergedInto(call.all_chunks, i) = MergedInto(call.all_chunks, j)

\* C23: merging the merged list again returns it unchanged: the same chunks
\* with the same line ranges and the same content.
C23_MergeIdempotent ==
    (call # <<>> /\ call.pc = "again") => call.again = call.merged

\* The first pass merged two chunks and left a boundary after them.
C23_Witness ==
    /\ call # <<>>
    /\ call.pc = "again"
    /\ Len(call.merged) = 2
    /\ Len(call.all_chunks) = 3
    /\ call.merged[1].file = call.merged[2].file
    /\ call.again = call.merged

\* C24: a merged chunk starts where the first chunk merged into it starts
\* and ends no earlier than any chunk merged into it; every chunk of the
\* merged list has start_line <= end_line, and no two of its chunks of one
\* file cover a common line.
C24_MergeOnlyExtends ==
    MergeDone =>
        /\ \A i \in DOMAIN call.all_chunks :
              LET m == call.merged[MergedInto(call.all_chunks, i)]
              IN  /\ m.start_line <= call.all_chunks[i].start_line
                  /\ m.end_line >= call.all_chunks[i].end_line
                  /\ \E j \in 1..i :
                        /\ MergedInto(call.all_chunks, j)
                              = MergedInto(call.all_chunks, i)
                        /\ m.start_line = call.all_chunks[j].start_line
        /\ \A k \in DOMAIN call.merged :
              call.merged[k].start_line <= call.merged[k].end_line
        /\ \A k, n \in DOMAIN call.merged : \A f \in DocFiles :
              \A l \in MergeLines :
                 (Covers(call.merged[k], f, l) /\ Covers(call.merged[n], f, l))
                    => k = n

(***************************************************************************)
(* The commands check and hook (src/main.rs): what a run prints and the    *)
(* code the process exits with, for what the configuration, git, the       *)
(* analysis and the terminal give.                                         *)
(***************************************************************************)

\* A Result, or the code of a process::exit inside the command.
Res(kind, val) == [kind |-> kind, val |-> val]

\* What a command has done when it ends.
Ended(result, stdout, stderr) ==
    [result |-> result, stdout |-> stdout, stderr |-> stderr]

\* output::print_issues: the banner, every issue in order, the banner.
PrintIssues(issues) ==
    <<"drift detected">> \o [i \in 1..Len(issues) |-> <<"Issue", i, issues[i]>>]
       \o <<"banner">>

HookOnError_AlwaysBlock(allow_push_on_error, e) ==
    Ended(Res("Err", e), <<>>, <<>>)

\* The Err(e) arms of cmd_hook for get_diff and for analyze.
HookOnError(allow_push_on_error, e) ==
    IF allow_push_on_error
    THEN Ended(Res("Ok", "()"), <<>>, <<<<"driftcheck warning", e>>>>)
    ELSE Ended(Res("Err", e), <<>>, <<>>)

UseTui_IgnoreFlag(no_tui, tty) == tty

\* let use_tui = !no_tui && atty::is(atty::Stream::Stdout);
UseTui(no_tui, tty) == ~no_tui /\ tty

\* cmd_check
CmdCheck(env) ==
    IF env.config.kind = "Err"
    THEN Ended(env.config, <<>>, <<>>)
    ELSE IF ~env.is_enabled
    THEN Ended(Res("Err", "Disabled"), <<>>, <<>>)
    ELSE IF env.get_diff.kind = "Err"
    THEN Ended(env.get_diff, <<>>, <<>>)
    ELSE IF env.get_diff.val = ""
    THEN Ended(Res("Ok", "()"), <<"No changes to check.">>, <<>>)
    ELSE IF env.analyze.kind = "Err"
    THEN Ended(env.analyze, <<>>, <<>>)
    ELSE IF env.analyze.val = <<>>
    THEN Ended(Res("Ok", "()"), <<"No documentation issues detected.">>, <<>>)
    ELSE IF UseTui(env.no_tui, env.tty)
    THEN Ended(env.tui, <<>>, <<>>)
    ELSE Ended(Res("exit", 1), <<>>, PrintIssues(env.analyze.val))

\* cmd_hook that puts an error of the review session under the
\* allow_push_on_error policy.
CmdHook_TuiUnderPolicy(env) ==
    IF env.config = Res("Err", "ConfigNotFound")
    THEN Ended(Res("Ok", "()"), <<>>, <<>>)
    ELSE IF env.config.kind = "Err"
    THEN Ended(env.config, <<>>, <<>>)
    ELSE IF ~env.is_enabled
    THEN Ended(Res("Ok", "()"), <<>>, <<>>)
    ELSE IF env.get_diff = Res("Err", "NoUpstream")
    THEN Ended(Res("Ok", "()"), <<>>, <<>>)
    ELSE IF env.get_diff.kind = "Err"
    THEN HookOnError(env.allow_push_on_error, env.get_diff.val)
    ELSE IF env.get_diff.val = ""
    THEN Ended(Res("Ok", "()"), <<>>, <<>>)
    ELSE IF env.analyze.kind = "Err"
    THEN HookOnError(env.allow_push_on_error, env.analyze.val)
    ELSE IF env.analyze.val = <<>>
    THEN Ended(Res("Ok", "()"), <<>>, <<>>)
    ELSE IF env.tty
    THEN IF env.tui.kind = "Err"
         THEN HookOnError(env.allow_push_on_error, env.tui.val)
         ELSE Ended(env.tui, <<>>, <<>>)
    ELSE Ended(Res("exit", 1), <<>>,
               PrintIssues(env.analyze.val) \o <<"Push blocked.">>)

\* cmd_hook
CmdHook(env) ==
    IF env.config = Res("Err", "ConfigNotFound")
    THEN Ended(Res("Ok", "()"), <<>>, <<>>)
    ELSE IF env.config.kind = "Err"
    THEN Ended(env.config, <<>>, <<>>)
    ELSE IF ~env.is_enabled
    THEN Ended(Res("Ok", "()"), <<>>, <<>>)
    ELSE IF env.get_diff = Res("Err", "NoUpstream")
    THEN Ended(Res("Ok", "()"), <<>>, <<>>)
    ELSE IF env.get_diff.kind = "Err"
    THEN HookOnError(env.allow_push_on_error, env.get_diff.val)
    ELSE IF env.get_diff.val = ""
    THEN Ended(Res("Ok", "()"), <<>>, <<>>)
    ELSE IF env.analyze.kind = "Err"
    THEN HookOnError(env.allow_push_on_error, env.analyze.val)
    ELSE IF env.analyze.val = <<>>
    THEN Ended(Res("Ok", "()"), <<>>, <<>>)
    ELSE IF env.tty
    THEN Ended(env.tui, <<>>, <<>>)
    ELSE Ended(Res("exit", 1), <<>>,
               PrintIssues(env.analyze.val) \o <<"Push blocked.">>)

\* main: the code the process exits with, and what it has printed by then.
Main(ended) ==
    IF ended.result.kind = "exit"
    THEN [exit_code |-> ended.result.val, stdout |-> ended.stdout,
          stderr |-> ended.stderr]
    ELSE IF ended.result.kind = "Err"
    THEN [exit_code |-> 1, stdout |-> ended.stdout,
          stderr |-> Append(ended.stderr, <<"Error", ended.result.val>>)]
    ELSE [exit_code |-> 0, stdout |-> ended.stdout, stderr |-> ended.stderr]

\* A run of check or hook, with anything the configuration, git, the
\* analysis and the terminal can give.
InitCli ==
    /\ EngineIdle
    /\ TruncIdle
    /\ CacheIdle
    /\ AnalyzeIdle
    /\ SearchIdle
    /\ \E command \in {"check", "hook"}, no_tui, tty \in BOOLEAN,
          enabled, allow \in BOOLEAN,
          config \in {Res("Ok", "config"), Res("Err", "ConfigNotFound"),
                      Res("Err", "ConfigParse")},
          diff \in {Res("Ok", ""), Res("Ok", "diff"),
                    Res("Err", "NoUpstream"), Res("Err", "GitError")},
          n \in 0..(NumIssues + 2),
          tui \in {Res("Ok", "()"), Res("Err", "Push aborted by user"),
                   Res("Err", "TuiError")} :
          call = [pc |-> "run", command |-> command,
                  env |-> [no_tui |-> no_tui, tty |-> tty, config |-> config,
                           is_enabled |-> enabled,
                           allow_push_on_error |-> allow, get_diff |-> diff,
                           analyze |->
                              IF n <= NumIssues
                              THEN Res("Ok", [i \in 1..n |-> i])
                              ELSE IF n = NumIssues + 1
                              THEN Res("Err", "RipgrepNotFound")
                              ELSE Res("Err", "LlmError"),
                           tui |-> tui],
                  exit_code |-> -1, stdout |-> <<>>, stderr |-> <<>>]

\* run() dispatches the command and main exits.
RunCommand ==
    /\ call.pc = "run"
    /\ LET m == Main(IF call.command = "check" THEN CmdCheck(call.env)
                     ELSE CmdHook(call.env))
       IN  call' = [call EXCEPT !.pc = "exited", !.exit_code = m.exit_code,
                                !.stdout = m.stdout, !.stderr = m.stderr]
    /\ UNCHANGED notCall

SpecCli == InitCli /\ [][RunCommand]_vars

\* The command has run to the exit of the process.
Exited(command) ==
    call # <<>> /\ call.pc = "exited" /\ call.command = command

\* The command got as far as the call of get_diff.
GotDiff == call.env.config.kind = "Ok" /\ call.env.is_enabled

\* The command called analyze.
CalledAnalyze == GotDiff /\ call.env.get_diff = Res("Ok", "diff")

\* The hook run met an error of get_diff or of analyze.
HookError ==
    \/ GotDiff /\ call.env.get_diff.kind = "Err"
    \/ CalledAnalyze /\ call.env.analyze.kind = "Err"

\* The error the hook run met.
HookErrorValue ==
    IF call.env.get_diff.kind = "Err" THEN call.env.get_diff.val
    ELSE call.env.analyze.val

\* C26: in a hook run an error of get_diff or of analyze blocks the push
\* (the process exits with a code other than 0) exactly when
\* allow_push_on_error is off; when it is on the error is printed as a
\* warning and the process exits with 0.
C26_PolicyDecides ==
    (Exited("hook") /\ HookError) =>
        /\ call.exit_code # 0 <=> ~call.env.allow_push_on_error
        /\ call.env.allow_push_on_error =>
              /\ call.exit_code = 0
              /\ call.stderr = <<<<"driftcheck warning", HookErrorValue>>>>

\* C26 as the code has it: the same for every error but NoUpstream, on which
\* the push is let through without a warning whatever the policy is.
C26_PolicyDecidesButNoUpstream ==
    (Exited("hook") /\ HookError) =>
        IF HookErrorValue = "NoUpstream"
        THEN call.exit_code = 0 /\ call.stderr = <<>>
        ELSE /\ call.exit_code # 0 <=> ~call.env.allow_push_on_error
             /\ call.env.allow_push_on_error =>
                   /\ call.exit_code = 0
                   /\ call.stderr = <<<<"driftcheck warning", HookErrorValue>>>>
             /\ ~call.env.allow_push_on_error =>
                   /\ call.exit_code = 1
                   /\ call.stderr = <<<<"Error", HookErrorValue>>>>

\* With the policy on, the analysis failed and the push went through with a
\* warning.
C26_Witness ==
    /\ Exited("hook")
    /\ CalledAnalyze
    /\ call.env.analyze = Res("Err", "LlmError")
    /\ call.env.allow_push_on_error
    /\ call.exit_code = 0
    /\ call.stderr = <<<<"driftcheck warning", "LlmError">>>>

\* The check run does not open the terminal interface.
NonInteractive == ~(~call.env.no_tui /\ call.env.tty)

\* analyze returned Ok with at least one issue.
ReturnedIssues ==
    /\ CalledAnalyze
    /\ call.env.analyze.kind = "Ok"
    /\ call.env.analyze.val # <<>>

\* C27: a check run in non-interactive mode exits with code 1 exactly when
\* analyze returned at least one issue, and it has then printed every issue;
\* when analyze returned no issue it exits with 0 and has reported that no
\* documentation issues were detected.
C27_ExitCodeIsIssues ==
    (Exited("check") /\ NonInteractive) =>
        /\ call.exit_code = 1 <=> ReturnedIssues
        /\ ReturnedIssues => call.stderr = PrintIssues(call.env.analyze.val)
        /\ (CalledAnalyze /\ call.env.analyze = Res("Ok", <<>>)) =>
              /\ call.exit_code = 0
              /\ call.stdout = <<"No documentation issues detected.">>

\* C27 as the code has it: the exit code is 1 when analyze returned at least
\* one issue and also when the run failed with an error, which main reports;
\* among the runs in which analyze returned Ok it is 1 exactly when there is
\* an issue.
C27_ExitCodeIsIssuesOrError ==
    (Exited("check") /\ NonInteractive) =>
        /\ call.exit_code \in {0, 1}
        /\ call.exit_code = 1 <=>
              \/ ReturnedIssues
              \/ call.env.config.kind = "Err"
              \/ ~call.env.is_enabled
              \/ GotDiff /\ call.env.get_diff.kind = "Err"
              \/ CalledAnalyze /\ call.env.analyze.kind = "Err"
        /\ ReturnedIssues => call.stderr = PrintIssues(call.env.analyze.val)
        /\ (CalledAnalyze /\ call.env.analyze = Res("Ok", <<>>)) =>
              /\ call.exit_code = 0
              /\ call.stdout = <<"No documentation issues detected.">>

\* With --no-tui on a terminal, analyze returned NumIssues issues: all were
\* printed and the process exited with 1.
C27_Witness ==
    /\ Exited("check")
    /\ call.env.no_tui
    /\ call.env.tty
    /\ ReturnedIssues
    /\ Len(call.env.analyze.val) = NumIssues
    /\ Len(call.stderr) = NumIssues + 2
    /\ call.exit_code = 1

(***************************************************************************)
(* LlmClient::chat (src/llm.rs): the retry loop around make_request.       *)
(***************************************************************************)

\* The largest llm.max_retries looked at.
MaxRetries == 2

\* debug!("LLM response: {}", &response[..response.len().min(500)])
LogPrefixBytes == 500

\* The bytes of chars a..b of a string given by its chars' widths, summed
\* by halves.
RECURSIVE BytesOf(_, _, _)
BytesOf(content, a, b) ==
    IF a > b THEN 0
    ELSE IF a = b THEN content[a]
    ELSE BytesOf(content, a, (a + b) \div 2)
           + BytesOf(content, (a + b) \div 2 + 1, b)

\* str::is_char_boundary
IsCharBoundary(content, n) ==
    \E k \in 0..Len(content) : BytesOf(content, 1, k) = n

\* The responses looked at: a short one, one of more than LogPrefixBytes
\* bytes in one-byte chars, and one whose two-byte char lies across byte
\* LogPrefixBytes.
Responses ==
    {<<1, 1, 1>>, [i \in 1..(LogPrefixBytes + 1) |-> 1],
     [i \in 1..LogPrefixBytes |-> IF i = LogPrefixBytes THEN 2 ELSE 1]}

\* What make_request can return.
MakeRequestResults ==
    {Res("Ok", r) : r \in Responses}
       \cup {Res("Err", e) : e \in {"LlmTimeout", "LlmError", "LlmResponseParse"}}

\* Duration::from_millis(500 * 2u64.pow(attempt - 1)), in milliseconds; up
\* to MaxRetries the product is far below 2^64.
Delay(attempt) == 500 * 2 ^ (attempt - 1)

\* A call of chat with any max_retries, with debug logging on or off.
InitChat ==
    /\ EngineIdle
    /\ TruncIdle
    /\ CacheIdle
    /\ AnalyzeIdle
    /\ SearchIdle
    /\ \E max_retries \in 0..MaxRetries, debug \in BOOLEAN :
          call = [pc |-> "loop", max_retries |-> max_retries, debug |-> debug,
                  attempt |-> 0, requests |-> <<>>, delays |-> <<>>,
                  last_error |-> "None", result |-> "None"]

\* One iteration of the loop: the sleep before a retry, the request, and the
\* match on its result; the response is sliced for the log when debug
\* logging is on.
ChatAttempt(r) ==
    /\ call.pc = "loop"
    /\ call.attempt \in 0..call.max_retries
    /\ LET c == [call EXCEPT
                   !.requests = Append(@, r),
                   !.delays = IF call.attempt > 0
                              THEN Append(@, Delay(call.attempt)) ELSE @]
       IN  call' =
             IF r.kind = "Ok"
             THEN IF /\ call.debug
                     /\ ~IsCharBoundary(r.val,
                           Min({BytesOf(r.val, 1, Len(r.val)),
                                LogPrefixBytes}))
                  THEN [c EXCEPT !.pc = "panicked"]
                  ELSE [c EXCEPT !.pc = "done", !.result = r]
             ELSE [c EXCEPT !.attempt = @ + 1, !.last_error = r.val]
    /\ UNCHANGED notCall

\* After the loop: Err(last_error.unwrap_or_else(..)).
ChatExhausted ==
    /\ call.pc = "loop"
    /\ call.attempt \notin 0..call.max_retries
    /\ call' = [call EXCEPT
                  !.pc = "done",
                  !.result = Res("Err", IF call.last_error = "None"
                                        THEN "LlmError(Unknown error)"
                                        ELSE call.last_error)]
    /\ UNCHANGED notCall

NextChat ==
    \/ \E r \in MakeRequestResults : ChatAttempt(r)
    \/ ChatExhausted

\* The runtime polls the future and every request returns, by the client's
\* timeout at the latest.
SpecChat == InitChat /\ [][NextChat]_vars /\ WF_vars(NextChat)

\* The requests made so far all failed.
AllFailed ==
    \A i \in DOMAIN call.requests : call.requests[i].kind = "Err"

\* C28: a chat call makes at most max_retries + 1 requests and ends; it
\* returns the first successful response, after which no request is made,
\* and when every attempt has failed it returns the error of the last one.
C28_BoundedRetries ==
    /\ [](call # <<>> =>
            /\ Len(call.requests) <= call.max_retries + 1
            /\ \A i \in 1..(Len(call.requests) - 1) :
                  call.requests[i].kind = "Err"
            /\ (~AllFailed) =>
                  /\ call.pc = "done"
                  /\ call.result = call.requests[Len(call.requests)]
            /\ (AllFailed /\ call.pc # "loop") =>
                  /\ call.pc = "done"
                  /\ Len(call.requests) = call.max_retries + 1
                  /\ call.result = call.requests[Len(call.requests)])
    /\ <>(call # <<>> /\ call.pc # "loop")
    /\ [][call.pc # "loop" => call' = call]_vars

(***************************************************************************)
(* ParsedDiff::parse (src/git.rs): the files of a diff.                    *)
(***************************************************************************)

\* The most lines of a parsed diff.
MaxParseLines == 3

\* A call of parse with any diff of up to MaxParseLines lines.
InitParse ==
    /\ EngineIdle
    /\ TruncIdle
    /\ CacheIdle
    /\ AnalyzeIdle
    /\ SearchIdle
    /\ \E n \in 0..MaxParseLines : \E diff \in [1..n -> DiffLines] :
          call = [pc |-> "parse", diff |-> diff, files |-> <<>>]

\* The loop over diff.lines() has pushed the files.
ParseCall ==
    /\ call.pc = "parse"
    /\ call' = [call EXCEPT !.pc = "parsed", !.files = ParseFiles(call.diff)]
    /\ UNCHANGED notCall

SpecParse == InitParse /\ [][ParseCall]_vars

\* The lines of the diff that are per-file markers naming a new-side path.
MarkerLines(diff) ==
    {i \in DOMAIN diff : diff[i].git /\ diff[i].b_path # "None"}

\* The first marker line that names the path.
FirstMarker(diff, path) ==
    Min({i \in MarkerLines(diff) : diff[i].b_path = path})

\* C29: the files of a parsed diff are exactly the new-side paths of its
\* per-file markers, each path once, in the order in which the paths first
\* appear in the diff.
C29_FilesOncePerPath ==
    (call # <<>> /\ call.pc = "parsed") =>
        /\ {call.files[i] : i \in DOMAIN call.files}
              = {call.diff[i].b_path : i \in MarkerLines(call.diff)}
        /\ \A i, j \in DOMAIN call.files :
              call.files[i] = call.files[j] => i = j
        /\ \A i, j \in DOMAIN call.files :
              i < j => FirstMarker(call.diff, call.files[i])
                          < FirstMarker(call.diff, call.files[j])

----------------------------------------------------------------------------
\* The selection of App over an issue list of any length, the empty one
\* included (src/tui/app.rs). The App is the record c; an operation that
\* panics leaves it with pc = "panicked".

MaxNavLen == 3

SelectionKeys == {"j", "k", "a", "s", "Enter"}

\* A panic: an index out of bounds, a remainder by zero or a subtraction
\* below zero.
Panicked(c) == [c EXCEPT !.pc = "panicked"]

\* a % b on usize; b = 0 panics, shown as -1.
Rem(a, b) == IF b = 0 THEN -1 ELSE a % b

\* self.current_issue = i; self.list_state.select(Some(i))
Select(c, i) ==
    IF i < 0
    THEN Panicked(c)
    ELSE [c EXCEPT !.current_issue = i, !.list_state = <<i>>]

\* self.actions[i] = a, with the bounds check of the index.
SetAction(c, i, a) ==
    IF i >= c.len THEN Panicked(c) ELSE [c EXCEPT !.actions[i] = a]

PendingOf(c) == {i \in DOMAIN c.actions : c.actions[i] = "Pending"}

\* App::new over a list of n issues
AppNew(n) ==
    [pc |-> "nav", len |-> n, current_issue |-> 0,
     list_state |-> IF n > 0 THEN <<0>> ELSE <<>>,
     actions |-> [i \in 0 .. (n - 1) |-> "Pending"],
     active_task |-> <<>>, should_quit |-> FALSE, last |-> "new"]

\* next_issue
NextIssueOf(c) ==
    IF c.len = 0 THEN c ELSE Select(c, Rem(c.current_issue + 1, c.len))

\* prev_issue
PrevIssueOf(c) ==
    IF c.len = 0
    THEN c
    ELSE IF c.current_issue = 0
    THEN Select(c, c.len - 1)
    ELSE Select(c, c.current_issue - 1)

\* move_to_next_pending: the loop runs len times and stops at the first
\* Pending index.
MoveToNextPendingOf(c) ==
    LET found == {i \in 0 .. (c.len - 1) :
                     c.actions[Rem(c.current_issue + 1 + i, c.len)] = "Pending"}
    IN  IF found = {}
        THEN c
        ELSE Select(c, Rem(c.current_issue + 1 + Min(found), c.len))

\* apply_current; exists is issue.file.exists().
ApplyCurrentOf(c, exists) ==
    IF c.current_issue >= c.len \/ c.active_task # <<>> \/ ~exists
    THEN c
    ELSE [SetAction(c, c.current_issue, "Applying")
             EXCEPT !.active_task = <<c.current_issue>>]

\* skip_current without the test of the index against actions.len().
SkipCurrentOf_Unguarded(c) ==
    LET d == SetAction(c, c.current_issue, "Skip")
    IN  IF d.pc = "panicked" THEN d ELSE NextIssueOf(d)

\* skip_current
SkipCurrentOf(c) ==
    IF c.current_issue < c.len
    THEN LET d == SetAction(c, c.current_issue, "Skip")
         IN  IF d.pc = "panicked" THEN d ELSE NextIssueOf(d)
    ELSE NextIssueOf(c)

\* confirm_and_continue
ConfirmAndContinueOf(c) ==
    IF c.active_task # <<>>
    THEN c
    ELSE IF PendingOf(c) = {}
    THEN [c EXCEPT !.should_quit = TRUE]
    ELSE Select(c, Min(PendingOf(c)))

\* handle_key with the popup closed
HandleKeyOf(c, key, exists) ==
    IF c.active_task # <<>>
    THEN c
    ELSE CASE key = "j" -> NextIssueOf(c)
           [] key = "k" -> PrevIssueOf(c)
           [] key = "a" -> ApplyCurrentOf(c, exists)
           [] key = "s" -> SkipCurrentOf(c)
           [] key = "Enter" -> ConfirmAndContinueOf(c)

\* check_task_completion once the handle is finished with result res.
CheckTaskCompletionOf(c, res) ==
    LET d == SetAction([c EXCEPT !.active_task = <<>>], c.active_task[1],
                       ResultAction(res))
    IN  IF d.pc = "panicked"
        THEN d
        ELSE IF ResultAdvances(res) /\ PendingOf(d) # {}
        THEN MoveToNextPendingOf(d)
        ELSE d

\* draw_issue_detail: issues[current_issue] and actions[current_issue] are
\* read unless the list is empty.
DrawIssueDetail(c) ==
    IF c.len = 0
    THEN c
    ELSE IF c.current_issue >= c.len THEN Panicked(c) ELSE c

InitNav ==
    /\ EngineIdle
    /\ TruncIdle
    /\ CacheIdle
    /\ AnalyzeIdle
    /\ SearchIdle
    /\ \E n \in 0 .. MaxNavLen : call = AppNew(n)

\* The loop's completion check finds the task finished.
NavComplete ==
    /\ call.pc = "nav"
    /\ call.active_task # <<>>
    /\ \E res \in {"Ok", "Err", "Panicked"} :
          call' = [CheckTaskCompletionOf(call, res) EXCEPT !.last = "check"]
    /\ UNCHANGED notCall

\* terminal.draw
NavDraw ==
    /\ call.pc = "nav"
    /\ call' = [DrawIssueDetail(call) EXCEPT !.last = "draw"]
    /\ UNCHANGED notCall

\* A key is handled; run_loop breaks once should_quit is set.
NavKey(key) ==
    /\ call.pc = "nav"
    /\ \E exists \in BOOLEAN :
          LET d == HandleKeyOf(call, key, exists)
          IN  call' = [d EXCEPT !.last = key,
                                !.pc = IF d.pc = "nav" /\ d.should_quit
                                       THEN "quit" ELSE d.pc]
    /\ UNCHANGED notCall

NextNav ==
    \/ NavComplete
    \/ NavDraw
    \/ \E key \in SelectionKeys : NavKey(key)

SpecNav == InitNav /\ [][NextNav]_vars

\* C38: no operation panics on an index or on a division, for the empty
\* list too; for a non-empty list the selected index is a valid index and is
\* the row selected in the list widget.
C38_SelectionValid ==
    /\ call.pc # "panicked"
    /\ call.len > 0 =>
          /\ call.current_issue \in 0 .. (call.len - 1)
          /\ call.list_state = <<call.current_issue>>
    /\ call.len = 0 =>
          /\ call.current_issue = 0
          /\ call.list_state = <<>>
          /\ call.active_task = <<>>

\* The skip key was handled over the empty list.
C38_Witness ==
    /\ call.pc = "nav"
    /\ call.len = 0
    /\ call.last = "s"

----------------------------------------------------------------------------
\* The parser of one line of ripgrep's output (src/search.rs, parse_rg_line),
\* looked at on its own. A line is a sequence of characters.

MaxRgPath == 2
MaxRgDigits == 2
MaxRgContent == 3

\* The characters the lines are built from: a letter, a digit and the two
\* separators.
RgChars == {"a", "1", ":", "-"}

\* u8::is_ascii_digit
IsAsciiDigit(ch) == ch \in {"0", "1", "2", "3", "4", "5", "6", "7", "8", "9"}

DigitValue(ch) ==
    CASE ch = "0" -> 0 [] ch = "1" -> 1 [] ch = "2" -> 2 [] ch = "3" -> 3
      [] ch = "4" -> 4 [] ch = "5" -> 5 [] ch = "6" -> 6 [] ch = "7" -> 7
      [] ch = "8" -> 8 [] ch = "9" -> 9

RECURSIVE DecimalValue(_)
DecimalValue(str) ==
    IF str = <<>>
    THEN 0
    ELSE 10 * DecimalValue(SubSeq(str, 1, Len(str) - 1))
            + DigitValue(str[Len(str)])

\* str::parse::<usize>: an optional '+' and then one digit or more. The
\* strings of the model are far too short to overflow a usize.
ParseUsize(str) ==
    LET digits == IF str # <<>> /\ str[1] = "+" THEN Tail(str) ELSE str
    IN  IF digits # <<>> /\ \A i \in DOMAIN digits : IsAsciiDigit(digits[i])
        THEN [ok |-> TRUE, value |-> DecimalValue(digits)]
        ELSE [ok |-> FALSE, value |-> 0]

\* str::split_once: the parts before and after the first sep.
SplitOnce(str, sep) ==
    LET at == {i \in DOMAIN str : str[i] = sep}
    IN  IF at = {}
        THEN [some |-> FALSE, head |-> <<>>, rest |-> <<>>]
        ELSE [some |-> TRUE, head |-> SubSeq(str, 1, Min(at) - 1),
              rest |-> SubSeq(str, Min(at) + 1, Len(str))]

\* split_at_line_number: the line is cut at the first sep that is followed
\* by a digit.
SplitAtLineNumber(line, sep) ==
    LET at == {i \in 1 .. (Len(line) - 1) :
                  line[i] = sep /\ IsAsciiDigit(line[i + 1])}
    IN  IF at = {}
        THEN [some |-> FALSE, head |-> <<>>, rest |-> <<>>]
        ELSE [some |-> TRUE, head |-> SubSeq(line, 1, Min(at) - 1),
              rest |-> SubSeq(line, Min(at) + 1, Len(line))]

NoLine == [some |-> FALSE, file |-> <<>>, line_num |-> 0, content |-> <<>>]

\* One of parse_rg_line's two attempts: path, sep, number, sep, content.
TryPattern(line, sep) ==
    LET cut  == SplitAtLineNumber(line, sep)
        rest == SplitOnce(cut.rest, sep)
        num  == ParseUsize(rest.head)
    IN  IF cut.some /\ rest.some /\ num.ok
        THEN [some |-> TRUE, file |-> cut.head, line_num |-> num.value,
              content |-> rest.rest]
        ELSE NoLine

\* parse_rg_line: the ':' pattern first, then the '-' pattern.
ParseRgLine(line) ==
    IF TryPattern(line, ":").some
    THEN TryPattern(line, ":")
    ELSE TryPattern(line, "-")

\* A path in which no separator is followed by a digit.
PlainPath(path) ==
    \A i \in 1 .. (Len(path) - 1) :
        ~(path[i] \in {":", "-"} /\ IsAsciiDigit(path[i + 1]))

\* ripgrep prints the path, the line number in decimal and the line, with
\* ':' around the number of a matching line and '-' around the number of a
\* context line.
InitRgLine ==
    /\ EngineIdle
    /\ TruncIdle
    /\ CacheIdle
    /\ AnalyzeIdle
    /\ SearchIdle
    /\ \E pl \in 1 .. MaxRgPath, dl \in 1 .. MaxRgDigits, cl \in 0 .. MaxRgContent :
       \E path \in [1 .. pl -> RgChars], content \in [1 .. cl -> RgChars] :
       \E sep \in {":", "-"} :
          /\ PlainPath(path)
          /\ call = [pc |-> "line", path |-> path, sep |-> sep,
                     digits |-> [i \in 1 .. dl |-> "1"], content |-> content,
                     line |-> path \o <<sep>> \o [i \in 1 .. dl |-> "1"]
                                 \o <<sep>> \o content,
                     parsed |-> NoLine]

\* parse_rg_line(line)
ParseRgLineCall ==
    /\ call.pc = "line"
    /\ call' = [call EXCEPT !.pc = "parsed", !.parsed = ParseRgLine(call.line)]
    /\ UNCHANGED notCall

SpecRgLine == InitRgLine /\ [][ParseRgLineCall]_vars

\* parse_rg_line has returned the path, the number and the content the line
\* was printed from.
ParsedAsPrinted ==
    /\ call.parsed.some
    /\ call.parsed.file = call.path
    /\ call.parsed.line_num = DecimalValue(call.digits)
    /\ call.parsed.content = call.content

\* C32: for every line path, sep, N, sep, content whose path has no
\* separator followed by a digit, with ':' and with '-' as the separator,
\* parse_rg_line returns the path, N and the content.
C32_ParsedAsPrinted ==
    call.pc = "parsed" => ParsedAsPrinted

----------------------------------------------------------------------------
\* The parser of the analysis response (src/llm.rs, parse_issues), looked at
\* on its own. A response is a sequence of characters.

MaxResponseLen == 4

\* The characters of a response: the two brackets, a blank, "o" for the JSON
\* text of one issue object and "n" for the words "no issues".
ResponseChars == {"[", "]", " ", "o", "n"}

\* str::trim
RECURSIVE TrimStr(_)
TrimStr(str) ==
    IF str = <<>>
    THEN str
    ELSE IF Head(str) = " "
    THEN TrimStr(Tail(str))
    ELSE IF str[Len(str)] = " "
    THEN TrimStr(SubSeq(str, 1, Len(str) - 1))
    ELSE str

\* str::find and str::rfind of one character: the set of its positions.
PositionsOf(str, ch) == {i \in DOMAIN str : str[i] = ch}

\* &response[start..=end]: the slice, or a panic when start is beyond
\* end + 1.
SliceInclusive(str, start, end) ==
    IF start > end + 1
    THEN [panic |-> TRUE, str |-> <<>>]
    ELSE [panic |-> FALSE, str |-> SubSeq(str, start, end)]

\* serde_json::from_str::<Vec<RawIssue>>: an array of issue objects. Over
\* the characters of the model the arrays are the empty one and the one of a
\* single object, with blanks anywhere between the tokens.
FromStr(json) ==
    LET tokens == SelectSeq(json, LAMBDA ch : ch # " ")
    IN  IF tokens = <<"[", "]">>
        THEN [kind |-> "Ok", issues |-> <<>>]
        ELSE IF tokens = <<"[", "o", "]">>
        THEN [kind |-> "Ok", issues |-> <<"o">>]
        ELSE [kind |-> "Err", issues |-> <<>>]

\* parse_issues
ParseIssues(response) ==
    LET text  == TrimStr(response)
        open  == PositionsOf(text, "[")
        close == PositionsOf(text, "]")
    IN  IF open = {}
        THEN IF PositionsOf(text, "n") # {}
             THEN [kind |-> "Ok", issues |-> <<>>]
             ELSE [kind |-> "Err", issues |-> <<>>]
        ELSE IF close = {}
        THEN [kind |-> "Err", issues |-> <<>>]
        ELSE LET json == SliceInclusive(text, Min(open),
                                        -Min({-i : i \in close}))
             IN  IF json.panic
                 THEN [kind |-> "panic", issues |-> <<>>]
                 ELSE FromStr(json.str)

InitIssues ==
    /\ EngineIdle
    /\ TruncIdle
    /\ CacheIdle
    /\ AnalyzeIdle
    /\ SearchIdle
    /\ \E n \in 0 .. MaxResponseLen : \E response \in [1 .. n -> ResponseChars] :
          call = [pc |-> "issues", response |-> response,
                  result |-> [kind |-> "None", issues |-> <<>>]]

\* parse_issues(&response)
ParseIssuesCall ==
    /\ call.pc = "issues"
    /\ call' = [call EXCEPT !.pc = "parsed",
                            !.result = ParseIssues(call.response)]
    /\ UNCHANGED notCall

SpecIssues == InitIssues /\ [][ParseIssuesCall]_vars

\* The last position of ch in str.
LastOf(str, ch) == CHOOSE i \in PositionsOf(str, ch) :
                       \A j \in PositionsOf(str, ch) : j <= i

\* C33: parse_issues ends with an issue list or a parse error for every
\* response; with a '[' and a ']' in the response the result is that of
\* parsing the text from the first '[' to the last ']'; with no '[' it is
\* the empty list when the response says "no issues" and a parse error
\* otherwise.
C33_ParseIssuesTotal ==
    call.pc = "parsed" =>
        LET text == TrimStr(call.response)
        IN  /\ call.result.kind \in {"Ok", "Err"}
            /\ (PositionsOf(text, "[") # {} /\ PositionsOf(text, "]") # {}) =>
                  call.result = FromStr(SubSeq(text, Min(PositionsOf(text, "[")),
                                               LastOf(text, "]")))
            /\ PositionsOf(text, "[") = {} =>
                  call.result = IF PositionsOf(text, "n") # {}
                                THEN [kind |-> "Ok", issues |-> <<>>]
                                ELSE [kind |-> "Err", issues |-> <<>>]

====
